---- MODULE Spec2Model ----
(***************************************************************************)
(* Verification model of the provider protocol adapter of                  *)
(* oai-compatible-copilot: the retry executor (utils.ts, executeWithRetry) *)
(* and the three stream parsers with the tool-call assembler and thinking  *)
(* buffer they inherit (openaiApi.ts, openaiResponsesApi.ts,               *)
(* anthropicApi.ts, commonApi.ts).                                         *)
(*                                                                         *)
(* The specifications share the module: SpecRetry drives one call of       *)
(* executeWithRetry; SpecStream drives one call of                         *)
(* OpenaiApi.processStreamingResponse line by line; SpecSplit feeds that   *)
(* parser one content text cut into deltas; SpecResponses drives           *)
(* OpenaiResponsesApi.processStreamingResponse; SpecParsers drives the     *)
(* parser the provider picked, any of the three.                           *)
(***************************************************************************)
EXTENDS Integers, Sequences, FiniteSets, TLC

VARIABLES
    \* ---- executeWithRetry -------------------------------------------------
    retryConfig,    \* the RetryConfig argument
    rpc,            \* position in executeWithRetry
    attempt,        \* the loop variable
    lastError,      \* the message of lastError (<<>> while undefined)
    rtrace,         \* history: the invocations of fn and the waits, in order
    cancellation,   \* the host's CancellationToken of the request, and as
                    \* history where executeWithRetry stood when it fired
    \* ---- OpenaiApi.processStreamingResponse -------------------------------
    spc,            \* position of processStreamingResponse
    linesRead,      \* number of stream lines consumed so far
    api,            \* the OpenaiApi object: its fields, and as history the
                    \* parts it reported and the thinking ids it generated
    lastLine,       \* history: what the last handled line was and did
    reasoningCache, \* the Map of the ReasoningCache singleton: reasoning
                    \* text by tool-call id
    received,       \* history: the content text delivered so far by the
                    \* content deltas of SpecSplit
    parser,         \* the class of the object in api, chosen by the provider
                    \* from the apiMode of the model ("none": no stream)
    reader,         \* where the read loop of processStreamingResponse stands
                    \* between the token check, reader.read() and the lines
                    \* of the chunk it read
    framing,        \* the line framing of the read loop: the bytes of the
                    \* response and how many were read, the bytes the
                    \* TextDecoder holds back, `buffer`, and as history the
                    \* text sent, the chunk boundaries and the lines handed
                    \* to the for loop
    \* ---- request builders --------------------------------------------------
    request,        \* the host's request: messages, tools, toolMode
    built,          \* what the builder that ran last returned, threw and logged
    \* ---- HuggingFaceChatModelProvider --------------------------------------
    secrets,        \* vscode.SecretStorage: the stored keys by name
    cred,           \* one call of ensureApiKey and the check of its result:
                    \* position, arguments, apiKey, and as history the
                    \* lookups and prompts made, in order
    clock,          \* Date.now()
    lastRequestTime,\* this._lastRequestTime (null is {})
    chatCalls,      \* the calls of provideLanguageModelChatResponse: position,
                    \* delay read, and as history the times of their steps
    parsers,        \* the parser objects the calls created with `new`
    fed             \* per call: where its streaming stands, the parser it
                    \* holds, and as history what it gave that parser

retryVars == <<retryConfig, rpc, attempt, lastError, rtrace, cancellation>>

parseVars == <<spc, linesRead, api, lastLine>>

streamVars == <<parseVars, reasoningCache>>

splitVars == <<received>>

loopVars == <<reader, framing>>

builderVars == <<request, built>>

credVars == <<secrets, cred>>

pacingVars == <<clock, lastRequestTime, chatCalls>>

isolationVars == <<parsers, fed>>

providerVars == <<credVars, pacingVars, isolationVars>>

vars ==
    <<retryVars, streamVars, splitVars, parser, loopVars, builderVars, providerVars>>

nonRetryVars == <<streamVars, splitVars, parser, loopVars, builderVars, providerVars>>

nonStreamVars == <<retryVars, splitVars, parser, loopVars, builderVars, providerVars>>

\* all but the stream and the position of its read loop
nonReadVars == <<retryVars, splitVars, parser, framing, builderVars, providerVars>>

(***************************************************************************)
(* Generic helpers                                                         *)
(***************************************************************************)
Range(s) == {s[i] : i \in 1..Len(s)}

\* JS `a ?? b` for an optional number held as a set of at most one element
Nullish(opt, dflt) == IF opt = {} THEN dflt ELSE CHOOSE x \in opt : TRUE

(***************************************************************************)
(* Retry executor: utils.ts                                                *)
(***************************************************************************)
RETRY_MAX_ATTEMPTS == 3
RETRY_INTERVAL_MS == 1000
RETRYABLE_STATUS_CODES == <<429, 500, 502, 503, 504>>

\* Bounds of the retry inputs
MaxAttemptsCfg == 3

\* HTTP statuses the attempt function meets; 200 is res.ok
Statuses == {200, 400, 418, 429, 503}
\* The bracketed numbers "[n]" that occur in the response body's error text
Bodies == {<<>>, <<429>>}
IntervalCfgs == {{}, {250}}
StatusCodesCfgs == {{}, {<<429>>}, {<<418>>}}

RetryConfigs ==
    [enabled : BOOLEAN,
     max_attempts : {{}} \cup {{n} : n \in 0..MaxAttemptsCfg},
     interval_ms : IntervalCfgs,
     status_codes : StatusCodesCfgs]

\* The Error message the attempt function of the provider throws for a
\* response that is not ok, as the bracketed numbers it contains, in order:
\* `API error: [${res.status}] ${res.statusText}\n${errorText}\nURL: ...`
ErrorMessage(status, body) == <<status>> \o body

\* lastError.message.includes(`[${code}]`)
MessageIncludes(message, code) == \E i \in 1..Len(message) : message[i] = code

maxAttempts == Nullish(retryConfig.max_attempts, RETRY_MAX_ATTEMPTS)

intervalMs == Nullish(retryConfig.interval_ms, RETRY_INTERVAL_MS)

retryableStatusCodesReplacing ==
    IF retryConfig.status_codes # {}
    THEN Range(CHOOSE a \in retryConfig.status_codes : TRUE)
    ELSE Range(RETRYABLE_STATUS_CODES)

\* [...new Set([...RETRYABLE_STATUS_CODES, ...retryConfig.status_codes])]
retryableStatusCodes ==
    IF retryConfig.status_codes # {}
    THEN Range(RETRYABLE_STATUS_CODES)
            \cup Range(CHOOSE a \in retryConfig.status_codes : TRUE)
    ELSE Range(RETRYABLE_STATUS_CODES)

isRetryableErrorNegated(message) ==
    ~\E code \in retryableStatusCodes : MessageIncludes(message, code)

\* retryableStatusCodes.some((code) => lastError?.message.includes(`[${code}]`))
isRetryableError(message) ==
    \E code \in retryableStatusCodes : MessageIncludes(message, code)

\* the loop condition `attempt <= maxAttempts`
LoopBound(a) == a <= maxAttempts

WaitGrowing(a) == intervalMs * (a + 1)

\* the delay handed to setTimeout before the next attempt
WaitMs(a) == intervalMs

AttemptEntry(n, status, body, retried) ==
    [kind |-> "attempt", n |-> n, status |-> status, body |-> body,
     retried |-> retried, ms |-> 0]

WaitEntry(n, ms) ==
    [kind |-> "wait", n |-> n, status |-> 0, body |-> <<>>,
     retried |-> FALSE, ms |-> ms]

\* token.isCancellationRequested is false
NotCancelled == [isCancellationRequested |-> FALSE, during |-> "none", at |-> 0]

RetryIdle ==
    /\ retryConfig = [enabled |-> FALSE, max_attempts |-> {},
                      interval_ms |-> {}, status_codes |-> {}]
    /\ rpc = "off"
    /\ attempt = 0
    /\ lastError = <<>>
    /\ rtrace = <<>>
    /\ cancellation = NotCancelled

InitRetry ==
    /\ retryConfig \in RetryConfigs
    /\ rpc = "start"
    /\ attempt = 0
    /\ lastError = <<>>
    /\ rtrace = <<>>
    /\ cancellation = NotCancelled

\* if (!retryConfig.enabled) return await fn();
RetryDisabledCall ==
    /\ rpc = "start"
    /\ ~retryConfig.enabled
    /\ \E status \in Statuses, body \in Bodies :
        /\ rtrace' = Append(rtrace, AttemptEntry(0, status, body, FALSE))
        /\ IF status = 200
           THEN rpc' = "returned" /\ lastError' = lastError
           ELSE rpc' = "threw" /\ lastError' = ErrorMessage(status, body)
    /\ UNCHANGED <<retryConfig, attempt, cancellation>>

\* entering the for loop: attempt = 0
RetryEnter ==
    /\ rpc = "start"
    /\ retryConfig.enabled
    /\ attempt' = 0
    /\ rpc' = IF LoopBound(0) THEN "attempt" ELSE "threw"
    /\ UNCHANGED <<retryConfig, lastError, rtrace, cancellation>>

\* one iteration of the loop body up to the wait: try { return await fn() }
\* catch { ... }
RetryAttempt ==
    /\ rpc = "attempt"
    /\ \E status \in Statuses, body \in Bodies :
        IF status = 200
        THEN /\ rtrace' = Append(rtrace, AttemptEntry(attempt, status, body, FALSE))
             /\ rpc' = "returned"
             /\ UNCHANGED lastError
        ELSE LET message == ErrorMessage(status, body)
                 giveUp == ~isRetryableError(message) \/ attempt = maxAttempts
             IN /\ lastError' = message
                /\ rtrace' = Append(rtrace,
                                AttemptEntry(attempt, status, body, ~giveUp))
                /\ rpc' = IF giveUp THEN "threw" ELSE "wait"
    /\ UNCHANGED <<retryConfig, attempt, cancellation>>

\* await new Promise((resolve) => setTimeout(resolve, intervalMs)); attempt++
RetryWait ==
    /\ rpc = "wait"
    /\ rtrace' = Append(rtrace, WaitEntry(attempt, WaitMs(attempt)))
    /\ attempt' = attempt + 1
    /\ rpc' = IF LoopBound(attempt + 1) THEN "attempt" ELSE "threw"
    /\ UNCHANGED <<retryConfig, lastError, cancellation>>

\* the host cancels the request while executeWithRetry runs.  The function
\* takes (fn, retryConfig) only: it holds no token, and neither the timer of
\* the wait nor the fetch inside fn is given an abort signal, so nothing in
\* it reacts
HostCancels ==
    /\ rpc \in {"attempt", "wait"}
    /\ ~cancellation.isCancellationRequested
    /\ cancellation' = [isCancellationRequested |-> TRUE, during |-> rpc,
                        at |-> Len(rtrace)]
    /\ UNCHANGED <<retryConfig, rpc, attempt, lastError, rtrace>>

(***************************************************************************)
(* Text helpers.  A text is a sequence of one-character strings; the       *)
(* argument text of a tool call is a sequence of JSON tokens.              *)
(***************************************************************************)
StartsWithAt(data, pat, i) ==
    /\ i + Len(pat) - 1 <= Len(data)
    /\ \A k \in 1..Len(pat) : data[i + k - 1] = pat[k]

\* String.prototype.indexOf, 0-based, -1 when absent
IndexOf(data, pat) ==
    IF \E i \in 1..Len(data) : StartsWithAt(data, pat, i)
    THEN (CHOOSE i \in 1..Len(data) :
            /\ StartsWithAt(data, pat, i)
            /\ \A j \in 1..(i - 1) : ~StartsWithAt(data, pat, j)) - 1
    ELSE -1

\* String.prototype.slice(from) and slice(0, to), 0-based
SliceFrom(data, from) == SubSeq(data, from + 1, Len(data))
SliceTo(data, to) == SubSeq(data, 1, to)

IsSpace(c) == c \in {" ", "\n"}

\* String.prototype.trim
Trim(data) ==
    IF \A i \in 1..Len(data) : IsSpace(data[i])
    THEN <<>>
    ELSE LET a == CHOOSE i \in 1..Len(data) :
                    ~IsSpace(data[i]) /\ \A j \in 1..(i - 1) : IsSpace(data[j])
             b == CHOOSE i \in 1..Len(data) :
                    ~IsSpace(data[i]) /\ \A j \in (i + 1)..Len(data) : IsSpace(data[j])
         IN SubSeq(data, a, b)

(***************************************************************************)
(* JSON.parse on token texts.  Tokens: "{", "}", "[", "]", the member key  *)
(* "\"a\":" (key and colon), the number "1" and the blank " ".  The        *)
(* grammar is JSON's, cut down to at most one member per object and one    *)
(* element per array.                                                      *)
(***************************************************************************)
KeyTok == "\"a\":"

RECURSIVE ParseValueEnd(_, _)
\* the position after the JSON value that starts at t[i], 0 if there is none
ParseValueEnd(t, i) ==
    IF i > Len(t) THEN 0
    ELSE IF t[i] = "1" THEN i + 1
    ELSE IF t[i] \in {"{", "["} THEN
        LET close == IF t[i] = "{" THEN "}" ELSE "]"
            inner == IF t[i] = "{" THEN i + 2 ELSE i + 1
        IN  IF i + 1 > Len(t) THEN 0
            ELSE IF t[i + 1] = close THEN i + 2
            ELSE IF t[i] = "{" /\ t[i + 1] # KeyTok THEN 0
            ELSE LET j == ParseValueEnd(t, inner)
                 IN IF j # 0 /\ j <= Len(t) /\ t[j] = close THEN j + 1 ELSE 0
    ELSE 0

NotBlank(tok) == tok # " "

\* JSON.parse(text): threw, or the value (its canonical text) and its type
JSONParse(text) ==
    LET t == SelectSeq(text, NotBlank)
    IN  IF Len(t) = 0 \/ ParseValueEnd(t, 1) # Len(t) + 1
        THEN [threw |-> TRUE, typeof |-> "undefined", isArray |-> FALSE, value |-> <<>>]
        ELSE [threw |-> FALSE,
              typeof |-> IF t[1] = "1" THEN "number" ELSE "object",
              isArray |-> t[1] = "[",
              value |-> t]

ParseFailed == [ok |-> FALSE, value |-> <<>>]

tryParseJSONObjectAllowArray(text) ==
    IF text = <<>> \/ "{" \notin Range(text)
    THEN ParseFailed
    ELSE LET p == JSONParse(text)
         IN  IF p.threw THEN ParseFailed
             ELSE IF p.typeof = "object"
                  THEN [ok |-> TRUE, value |-> p.value]
                  ELSE ParseFailed

\* utils.ts tryParseJSONObject
tryParseJSONObject(text) ==
    IF text = <<>> \/ "{" \notin Range(text)
    THEN ParseFailed
    ELSE LET p == JSONParse(text)
         IN  IF p.threw THEN ParseFailed
             ELSE IF p.typeof = "object" /\ ~p.isArray
                  THEN [ok |-> TRUE, value |-> p.value]
                  ELSE ParseFailed


(***************************************************************************)
(* Parts reported to the host (progress.report), kept as a history.  `via` *)
(* is a history field: the place in the code that reported the part.       *)
(***************************************************************************)
NoOpt == {}

TextPart(text, via) ==
    [type |-> "Text", text |-> text, tid |-> 0, callId |-> "", name |-> "",
     args |-> <<>>, index |-> -1, named |-> FALSE, src |-> <<>>, via |-> via]

ThinkingPart(text, tid, via) ==
    [type |-> "Thinking", text |-> text, tid |-> tid, callId |-> "", name |-> "",
     args |-> <<>>, index |-> -1, named |-> FALSE, src |-> <<>>, via |-> via]

\* new LanguageModelToolCallPart(id, name, parameters); index, named (a name
\* was received) and src (the buffered argument text) are history fields
ToolCallPart(callId, name, args, buf, via) ==
    [type |-> "ToolCall", text |-> <<>>, tid |-> 0, callId |-> callId,
     name |-> name, args |-> args, index |-> buf.index,
     named |-> buf.name # NoOpt, src |-> buf.args, via |-> via]

(***************************************************************************)
(* The parser object.  Fields carry the names of the source without the    *)
(* leading underscore; toolCallBuffers is the Map as the sequence of its   *)
(* entries in insertion order; currentThinkingId 0 is null; reported and   *)
(* thinkingIds are history.                                                *)
(***************************************************************************)
NewApi ==
    [toolCallBuffers |-> <<>>,
     completedToolCallIndices |-> {},
     hasEmittedAssistantText |-> FALSE,
     emittedBeginToolCallsHint |-> FALSE,
     xmlThinkActive |-> FALSE,
     xmlThinkDetectionAttempted |-> FALSE,
     currentThinkingId |-> 0,
     thinkingBuffer |-> <<>>,
     thinkingFlushTimer |-> FALSE,
     capturedReasoning |-> <<>>,
     capturedToolCallIds |-> {},
     thinkingIds |-> 0,
     reported |-> <<>>]

\* progress.report(part)
Report(st, part) == [st EXCEPT !.reported = Append(@, part)]

(***************************************************************************)
(* Tool-call assembler: commonApi.ts                                       *)
(***************************************************************************)
\* `call_${Math.random().toString(36).slice(2, 10)}`
GeneratedCallId == "call_generated"

\* Map.get(index): the entry's position in insertion order, 0 if absent
BufferPos(bufs, index) ==
    IF \E i \in 1..Len(bufs) : bufs[i].index = index
    THEN CHOOSE i \in 1..Len(bufs) : bufs[i].index = index
    ELSE 0

\* Map.delete(index)
BufferDelete(bufs, index) ==
    LET Keep(b) == b.index # index IN SelectSeq(bufs, Keep)

\* Map.set(index, buf): an existing key keeps its place, a new one goes last
BufferSet(bufs, buf) ==
    LET i == BufferPos(bufs, buf.index)
    IN  IF i = 0 THEN Append(bufs, buf) ELSE [bufs EXCEPT ![i] = buf]

\* report the call, delete the buffer, mark the index completed
EmitToolCall(st, buf, name, value, via) ==
    [Report(st, ToolCallPart(Nullish(buf.id, GeneratedCallId), name, value, buf, via))
        EXCEPT !.toolCallBuffers = BufferDelete(@, buf.index),
               !.completedToolCallIndices = @ \cup {buf.index}]

\* tryEmitBufferedToolCall: `if (!buf.name) return;`
EmitNameCheck(buf) == buf.name # NoOpt

\* CommonApi.tryEmitBufferedToolCall(index, progress)
tryEmitBufferedToolCall(index, st) ==
    LET i == BufferPos(st.toolCallBuffers, index)
    IN  IF i = 0 THEN st
        ELSE LET buf == st.toolCallBuffers[i]
                 canParse == tryParseJSONObject(buf.args)
             IN  IF ~EmitNameCheck(buf) THEN st
                 ELSE IF ~canParse.ok THEN st
                 ELSE EmitToolCall(st, buf, Nullish(buf.name, ""),
                                   canParse.value, "incremental")

RECURSIVE FlushLoop(_, _, _)
\* the for loop of flushToolCallBuffers over Array.from(entries())
FlushLoop(entries, st, throwOnInvalid) ==
    IF entries = <<>> THEN [st |-> st, threw |-> FALSE]
    ELSE LET buf == Head(entries)
             parsed == tryParseJSONObject(buf.args)
         IN  IF ~parsed.ok
             THEN IF throwOnInvalid
                  THEN [st |-> st, threw |-> TRUE]
                  ELSE FlushLoop(Tail(entries), st, throwOnInvalid)
             ELSE FlushLoop(Tail(entries),
                            EmitToolCall(st, buf, Nullish(buf.name, "unknown_tool"),
                                         parsed.value, "flush"),
                            throwOnInvalid)

\* CommonApi.flushToolCallBuffers(progress, throwOnInvalid)
flushToolCallBuffers(st, throwOnInvalid) ==
    IF Len(st.toolCallBuffers) = 0 THEN [st |-> st, threw |-> FALSE]
    ELSE FlushLoop(st.toolCallBuffers, st, throwOnInvalid)

(***************************************************************************)
(* Thinking buffer: commonApi.ts                                           *)
(***************************************************************************)
\* CommonApi.generateThinkingId: a fresh id
generateThinkingId(st) == st.thinkingIds + 1

\* CommonApi.flushThinkingBuffer
flushThinkingBuffer(st, via) ==
    LET cleared == [st EXCEPT !.thinkingFlushTimer = FALSE]
    IN  IF st.thinkingBuffer # <<>> /\ st.currentThinkingId # 0
        THEN Report([cleared EXCEPT !.thinkingBuffer = <<>>],
                    ThinkingPart(st.thinkingBuffer, st.currentThinkingId, via))
        ELSE cleared

reportEndThinkingKeepsTimer(st) ==
    LET ended == IF st.currentThinkingId # 0
                 THEN Report(flushThinkingBuffer(st, "end"),
                             ThinkingPart(<<>>, st.currentThinkingId, "end"))
                 ELSE st
    IN  [ended EXCEPT !.currentThinkingId = 0,
                      !.thinkingBuffer = <<>>]

\* CommonApi.reportEndThinking
reportEndThinking(st) ==
    LET ended == IF st.currentThinkingId # 0
                 THEN Report(flushThinkingBuffer(st, "end"),
                             ThinkingPart(<<>>, st.currentThinkingId, "end"))
                 ELSE st
    IN  [ended EXCEPT !.currentThinkingId = 0,
                      !.thinkingBuffer = <<>>,
                      !.thinkingFlushTimer = FALSE]

bufferThinkingContentReplacing(text, st) ==
    LET opened == IF st.currentThinkingId = 0
                  THEN [st EXCEPT !.currentThinkingId = generateThinkingId(st),
                                  !.thinkingIds = generateThinkingId(st)]
                  ELSE st
    IN  [opened EXCEPT !.thinkingBuffer = text,
                       !.thinkingFlushTimer = TRUE]

\* CommonApi.bufferThinkingContent
bufferThinkingContent(text, st) ==
    LET opened == IF st.currentThinkingId = 0
                  THEN [st EXCEPT !.currentThinkingId = generateThinkingId(st),
                                  !.thinkingIds = generateThinkingId(st)]
                  ELSE st
    IN  [opened EXCEPT !.thinkingBuffer = @ \o text,
                       !.thinkingFlushTimer = TRUE]

(***************************************************************************)
(* Chat-completions parser: openaiApi.ts                                   *)
(***************************************************************************)
THINK_START == <<"<", "t", "h", "i", "n", "k", ">">>
THINK_END == <<"<", "/", "t", "h", "i", "n", "k", ">">>

\* OpenaiApi.processTextContent
processTextContent(input, st) ==
    IF Len(input) > 0
    THEN [st |-> Report(st, TextPart(input, "content")),
          emittedText |-> TRUE, emittedAny |-> TRUE]
    ELSE [st |-> st, emittedText |-> FALSE, emittedAny |-> FALSE]

\* a thinking part reported by processXmlThinkBlocks
XmlThinking(st, thinkContent) ==
    [Report(st, ThinkingPart(thinkContent, st.currentThinkingId, "xml"))
        EXCEPT !.capturedReasoning = @ \o thinkContent]

RECURSIVE XmlLoop(_, _, _)
\* the while loop of processXmlThinkBlocks
XmlLoop(data, st, emittedAny) ==
    IF Len(data) = 0 THEN [st |-> st, emittedAny |-> emittedAny]
    ELSE IF ~st.xmlThinkActive
    THEN LET startIdx == IndexOf(data, THINK_START)
         IN  IF startIdx = -1
             THEN [st |-> [st EXCEPT !.xmlThinkDetectionAttempted = TRUE],
                   emittedAny |-> emittedAny]
             ELSE XmlLoop(SliceFrom(data, startIdx + Len(THINK_START)),
                          [st EXCEPT !.xmlThinkActive = TRUE,
                                     !.currentThinkingId = generateThinkingId(st),
                                     !.thinkingIds = generateThinkingId(st)],
                          emittedAny)
    ELSE LET endIdx == IndexOf(data, THINK_END)
         IN  IF endIdx = -1
             THEN LET thinkContent == Trim(data)
                  IN  IF thinkContent # <<>>
                      THEN [st |-> XmlThinking(st, thinkContent), emittedAny |-> TRUE]
                      ELSE [st |-> st, emittedAny |-> emittedAny]
             ELSE LET thinkContent == SliceTo(data, endIdx)
                      said == IF thinkContent # <<>>
                              THEN XmlThinking(st, thinkContent) ELSE st
                  IN  XmlLoop(SliceFrom(data, endIdx + Len(THINK_END)),
                              [said EXCEPT !.xmlThinkActive = FALSE,
                                           !.currentThinkingId = 0],
                              emittedAny \/ thinkContent # <<>>)

\* OpenaiApi.processXmlThinkBlocks
processXmlThinkBlocks(input, st) ==
    IF st.xmlThinkDetectionAttempted /\ ~st.xmlThinkActive
    THEN [st |-> st, emittedAny |-> FALSE]
    ELSE XmlLoop(input, st, FALSE)

\* the text a reasoning_details entry stands for
ExtractedText(detail) ==
    CASE detail.type = "reasoning.summary" -> detail.text
      [] detail.type = "reasoning.text" -> detail.text
      [] detail.type = "reasoning.encrypted" -> <<"[REDACTED]">>
      [] OTHER -> <<"{detail}">>

RECURSIVE SortByIndex(_)
\* details.sort((a, b) => (a.index ?? 0) - (b.index ?? 0)): stable
SortByIndex(details) ==
    IF Len(details) <= 1 THEN details
    ELSE LET rest == SortByIndex(Tail(details))
             d == Head(details)
             Before(x) == Nullish(x.index, 0) < Nullish(d.index, 0)
             NotBefore(x) == ~Before(x)
         IN  SelectSeq(rest, Before) \o <<d>> \o SelectSeq(rest, NotBefore)

\* buffer one reasoning text and capture it for the reasoning cache
TakeReasoning(text, st) ==
    IF text # <<>>
    THEN [bufferThinkingContent(text, st) EXCEPT !.capturedReasoning = @ \o text]
    ELSE st

RECURSIVE DetailsLoop(_, _)
DetailsLoop(details, st) ==
    IF details = <<>> THEN st
    ELSE DetailsLoop(Tail(details), TakeReasoning(ExtractedText(Head(details)), st))

\* processDelta, the thinking part (reasoning_details before the simple field)
DeltaThinking(chunk, st) ==
    IF Len(chunk.reasoning_details) > 0
    THEN DetailsLoop(SortByIndex(chunk.reasoning_details), st)
    ELSE IF chunk.thinking # NoOpt
         THEN TakeReasoning(Nullish(chunk.thinking, <<>>), st)
         ELSE st

\* processDelta, the content part
DeltaContent(chunk, st) ==
    IF chunk.content = NoOpt \/ Nullish(chunk.content, <<>>) = <<>> THEN st
    ELSE LET content == Nullish(chunk.content, <<>>)
             xmlRes == processXmlThinkBlocks(content, st)
         IN  IF xmlRes.emittedAny THEN xmlRes.st
             ELSE LET res == processTextContent(content,
                                                reportEndThinking(xmlRes.st))
                  IN  IF res.emittedText
                      THEN [res.st EXCEPT !.hasEmittedAssistantText = TRUE]
                      ELSE res.st

MergeAlways(st, idx) == FALSE

\* `if (this._completedToolCallIndices.has(idx)) continue;`
AlreadyCompleted(st, idx) == idx \in st.completedToolCallIndices

\* merging one tool_calls entry into its buffer
MergeFragment(tc, st) ==
    LET idx == Nullish(tc.index, 0)
        i == BufferPos(st.toolCallBuffers, idx)
        buf == IF i = 0
               THEN [index |-> idx, id |-> NoOpt, name |-> NoOpt, args |-> <<>>]
               ELSE st.toolCallBuffers[i]
        merged == [buf EXCEPT
                     !.id = IF tc.id # NoOpt THEN tc.id ELSE @,
                     !.name = IF tc.name # NoOpt THEN tc.name ELSE @,
                     !.args = IF tc.arguments # NoOpt
                              THEN @ \o Nullish(tc.arguments, <<>>) ELSE @]
    IN  [st EXCEPT !.toolCallBuffers = BufferSet(@, merged),
                   !.capturedToolCallIds = @ \cup tc.id]

RECURSIVE ToolCallsLoop(_, _)
\* the for loop of processDelta over delta.tool_calls
ToolCallsLoop(toolCalls, st) ==
    IF toolCalls = <<>> THEN st
    ELSE LET tc == Head(toolCalls)
             idx == Nullish(tc.index, 0)
         IN  IF AlreadyCompleted(st, idx)
             THEN ToolCallsLoop(Tail(toolCalls), st)
             ELSE ToolCallsLoop(Tail(toolCalls),
                                tryEmitBufferedToolCall(idx, MergeFragment(tc, st)))

\* processDelta, the tool_calls part
DeltaToolCalls(chunk, st) ==
    IF chunk.tool_calls = NoOpt THEN st
    ELSE LET toolCalls == Nullish(chunk.tool_calls, <<>>)
             ended == reportEndThinking(st)
             hinted == IF /\ ~ended.emittedBeginToolCallsHint
                          /\ ended.hasEmittedAssistantText
                          /\ Len(toolCalls) > 0
                       THEN [Report(ended, TextPart(<<" ">>, "hint"))
                                EXCEPT !.emittedBeginToolCallsHint = TRUE]
                       ELSE ended
         IN  ToolCallsLoop(toolCalls, hinted)

\* `finish === "tool_calls" || finish === "stop"`
StrictFinish(finish) == finish \in {"tool_calls", "stop"}

\* OpenaiApi.processDelta: the state it leaves and whether it threw
processDelta(chunk, st) ==
    IF ~chunk.hasChoice THEN [st |-> st, threw |-> FALSE]
    ELSE LET after == DeltaToolCalls(chunk, DeltaContent(chunk, DeltaThinking(chunk, st)))
         IN  IF chunk.finish_reason # NoOpt
                /\ StrictFinish(Nullish(chunk.finish_reason, ""))
             THEN flushToolCallBuffers(after, TRUE)
             ELSE [st |-> after, threw |-> FALSE]

(***************************************************************************)
(* The stream: the lines processStreamingResponse meets, one per step.     *)
(***************************************************************************)
\* Bounds of the stream inputs
MaxLines == 3
MaxArgsLen == 4
MaxIndex == 1

Indices == 0..MaxIndex

ToolCallDelta(index, id, name, arguments) ==
    [index |-> index, id |-> id, name |-> name, arguments |-> arguments]

ArgsOpen == <<"{", KeyTok>>
ArgsClose == <<"1", "}">>
ArgsObject == <<"{", "}">>
ArgsArray == <<"[", "{", "}", "]">>
ArgsBlank == <<" ">>

\* the tool_calls entries a chunk may carry
Fragments ==
    {ToolCallDelta({i}, {"call_1"}, {"f"}, {<<>>}) : i \in Indices}
    \cup {ToolCallDelta({i}, NoOpt, NoOpt, {a}) :
            i \in Indices, a \in {ArgsOpen, ArgsClose, ArgsObject, ArgsBlank}}
    \cup {ToolCallDelta({i}, NoOpt, {"f"}, {a}) :
            i \in Indices, a \in {ArgsOpen, ArgsArray}}
    \cup {ToolCallDelta(NoOpt, NoOpt, {"g"}, NoOpt)}

Chunk(thinking, details, content, toolCalls, finish) ==
    [hasChoice |-> TRUE, thinking |-> thinking, reasoning_details |-> details,
     content |-> content, tool_calls |-> toolCalls, finish_reason |-> finish]

NoChoiceChunk ==
    [hasChoice |-> FALSE, thinking |-> NoOpt, reasoning_details |-> <<>>,
     content |-> NoOpt, tool_calls |-> NoOpt, finish_reason |-> NoOpt]

Detail(index, type, text) == [index |-> index, type |-> type, text |-> text]

Contents ==
    {<<"x">>, THINK_START \o <<"r", " ">>, <<"s">> \o THINK_END \o <<"y">>}

\* the parsed chunks the stream may carry
Chunks ==
    {NoChoiceChunk}
    \cup {Chunk({<<"r">>}, <<>>, NoOpt, NoOpt, NoOpt)}
    \cup {Chunk({<<"q">>},
                <<Detail({1}, "reasoning.text", <<"b">>),
                  Detail(NoOpt, "reasoning.encrypted", <<>>)>>,
                NoOpt, NoOpt, NoOpt)}
    \cup {Chunk(NoOpt, <<>>, {c}, NoOpt, NoOpt) : c \in Contents}
    \cup {Chunk(NoOpt, <<>>, NoOpt, {<<f>>}, NoOpt) : f \in Fragments}
    \cup {Chunk(NoOpt, <<>>, NoOpt, {<<>>}, NoOpt)}
    \cup {Chunk(NoOpt, <<>>, NoOpt, NoOpt, {fin}) :
            fin \in {"stop", "tool_calls", "length"}}
    \cup {Chunk(NoOpt, <<>>, NoOpt,
                {<<ToolCallDelta({0}, NoOpt, {"f"}, {ArgsObject}),
                   ToolCallDelta({1}, {"call_2"}, NoOpt, {ArgsOpen})>>},
                {"tool_calls"})}

\* the argument text of no buffer grows beyond MaxArgsLen tokens
WithinArgsBound(chunk) ==
    chunk.tool_calls = NoOpt \/
    LET toolCalls == Nullish(chunk.tool_calls, <<>>)
    IN  \A k \in 1..Len(toolCalls) :
          LET tc == toolCalls[k]
              i == BufferPos(api.toolCallBuffers, Nullish(tc.index, 0))
              have == IF i = 0 THEN 0 ELSE Len(api.toolCallBuffers[i].args)
          IN  have + Len(Nullish(tc.arguments, <<>>)) <= MaxArgsLen

Line(kind, raised, chunk) ==
    [kind |-> kind, raised |-> raised, chunk |-> chunk]

\* `new Map()` of the ReasoningCache singleton
EmptyCache == [id \in {} |-> <<>>]

CacheAddNothing(cache, toolCallIds, content) == cache

\* ReasoningCache.add(toolCallIds, content)
CacheAdd(cache, toolCallIds, content) ==
    IF content = <<>> \/ toolCallIds = {} THEN cache
    ELSE [id \in DOMAIN cache \cup toolCallIds |->
            IF id \in toolCallIds THEN content ELSE cache[id]]

\* ReasoningCache.get(toolCallId): undefined is {}
CacheGet(cache, toolCallId) ==
    IF toolCallId \in DOMAIN cache THEN {cache[toolCallId]} ELSE {}

\* the end of the finally block of processStreamingResponse: only the
\* chat-completions parser caches what it captured
CacheCaptured(class, st, cache) ==
    IF class = "OpenaiApi" /\ st.capturedReasoning # <<>>
          /\ st.capturedToolCallIds # {}
    THEN CacheAdd(cache, st.capturedToolCallIds, st.capturedReasoning)
    ELSE cache

StreamIdle ==
    /\ spc = "off"
    /\ linesRead = 0
    /\ api = NewApi
    /\ lastLine = [kind |-> "none", raised |-> "none", chunk |-> NoChoiceChunk]
    /\ reasoningCache = EmptyCache

InitStream ==
    /\ spc = "reading"
    /\ linesRead = 0
    /\ api = NewApi
    /\ lastLine = [kind |-> "none", raised |-> "none", chunk |-> NoChoiceChunk]
    /\ reasoningCache = EmptyCache

CanReadLine == spc = "reading" /\ linesRead < MaxLines

\* a line that does not start with "data:" is skipped
LineNotData ==
    /\ CanReadLine
    /\ linesRead' = linesRead + 1
    /\ lastLine' = Line("notdata", "none", NoChoiceChunk)
    /\ UNCHANGED <<spc, api, reasoningCache>>

DoneThrowsOnInvalid == TRUE

\* the throwOnInvalid argument of the flush at [DONE]
DoneThrowOnInvalid == FALSE

\* data === "[DONE]": flushToolCallBuffers(progress, false); continue
LineDone ==
    /\ CanReadLine
    /\ LET r == flushToolCallBuffers(api, DoneThrowOnInvalid)
       IN  /\ api' = r.st
           /\ lastLine' = Line("done", IF r.threw THEN "assembly" ELSE "none",
                               NoChoiceChunk)
           /\ spc' = IF r.threw THEN "threw" ELSE "reading"
    /\ linesRead' = linesRead + 1
    /\ UNCHANGED reasoningCache

LineMalformedAborts ==
    /\ CanReadLine
    /\ linesRead' = linesRead + 1
    /\ lastLine' = Line("malformed", "decode", NoChoiceChunk)
    /\ api' = reportEndThinking(api)
    /\ spc' = "threw"
    /\ UNCHANGED reasoningCache

\* JSON.parse(data) throws: the catch of the line swallows it
LineMalformed ==
    /\ CanReadLine
    /\ linesRead' = linesRead + 1
    /\ lastLine' = Line("malformed", "decode", NoChoiceChunk)
    /\ UNCHANGED <<spc, api, reasoningCache>>

\* try { await this.processDelta(JSON.parse(data), progress) } catch {}
\* for a line that carries one of the given chunks
LineChunkFrom(chunks) ==
    /\ CanReadLine
    /\ \E chunk \in chunks :
        /\ WithinArgsBound(chunk)
        /\ LET r == processDelta(chunk, api)
           IN  /\ api' = r.st
               /\ lastLine' = Line("chunk",
                                   IF r.threw THEN "assembly" ELSE "none", chunk)
    /\ linesRead' = linesRead + 1
    /\ UNCHANGED <<spc, reasoningCache>>

LineChunk == LineChunkFrom(Chunks)

\* the debounce timer set by bufferThinkingContent fires: the callback of
\* setTimeout runs whenever the timer is still set, wherever
\* processStreamingResponse stands
ThinkingTimerFires ==
    /\ api.thinkingFlushTimer
    /\ api' = flushThinkingBuffer(api, "timer")
    /\ UNCHANGED <<spc, linesRead, lastLine, reasoningCache>>

\* reader.read() reports done, or the token is cancelled: the loop breaks,
\* the finally block ends the thinking sequence
StreamEnds ==
    /\ spc = "reading"
    /\ api' = reportEndThinking(api)
    /\ reasoningCache' = CacheCaptured(parser, api, reasoningCache)
    /\ spc' = "returned"
    /\ lastLine' = Line("end", "none", NoChoiceChunk)
    /\ UNCHANGED linesRead

\* reader.read() rejects: the finally block runs and the error propagates
ReadFails ==
    /\ spc = "reading"
    /\ api' = reportEndThinking(api)
    /\ reasoningCache' = CacheCaptured(parser, api, reasoningCache)
    /\ spc' = "threw"
    /\ lastLine' = Line("readerror", "transport", NoChoiceChunk)
    /\ UNCHANGED linesRead

\* no content delta of SpecSplit was delivered
SplitIdle == received = <<>>

\* the read loop seen line by line only: the chunk boundaries are not tracked
NotFraming ==
    [pc |-> "off", text |-> <<>>, wire |-> <<>>, sent |-> 0, cuts |-> {},
     pending |-> <<>>, buffer |-> <<>>, handed |-> <<>>]

LoopIdle == reader = [at |-> "read", left |-> 0] /\ framing = NotFraming

\* no request was handed to a builder
NoRequest == [messages |-> <<>>, tools |-> <<>>, toolMode |-> "Auto"]

NotBuilt == [by |-> "none"]

BuildersIdle == request = NoRequest /\ built = NotBuilt

\* no call of ensureApiKey
CredIdle ==
    /\ secrets = {}
    /\ cred = [pc |-> "off", useGenericKey |-> TRUE, provider |-> {},
               apiKey |-> {}, trace |-> <<>>]

\* the two calls of provideLanguageModelChatResponse the model follows
Calls == {1, 2}

NotCalled ==
    [pc |-> "idle", modelDelay |-> {}, globalDelay |-> 0, delayMs |-> 0,
     startedAt |-> 0, wakeAt |-> 0, submittedAt |-> {}, completedAt |-> {}]

PacingIdle ==
    /\ clock = 0
    /\ lastRequestTime = {}
    /\ chatCalls = [r \in Calls |-> NotCalled]

IsolationIdle == parsers = <<>> /\ fed = <<>>

ProviderIdle == CredIdle /\ PacingIdle /\ IsolationIdle

OthersIdle == SplitIdle /\ LoopIdle /\ BuildersIdle /\ ProviderIdle

(***************************************************************************)
(* Specifications                                                          *)
(***************************************************************************)
NextRetry ==
    \/ RetryDisabledCall /\ UNCHANGED nonRetryVars
    \/ RetryEnter /\ UNCHANGED nonRetryVars
    \/ RetryAttempt /\ UNCHANGED nonRetryVars
    \/ RetryWait /\ UNCHANGED nonRetryVars
    \/ HostCancels /\ UNCHANGED nonRetryVars

InitRetryOnly == InitRetry /\ StreamIdle /\ OthersIdle /\ parser = "none"

SpecRetry == InitRetryOnly /\ [][NextRetry]_vars

NextStream ==
    \/ LineNotData /\ UNCHANGED nonStreamVars
    \/ LineDone /\ UNCHANGED nonStreamVars
    \/ LineMalformed /\ UNCHANGED nonStreamVars
    \/ LineChunk /\ UNCHANGED nonStreamVars
    \/ ThinkingTimerFires /\ UNCHANGED nonStreamVars
    \/ StreamEnds /\ UNCHANGED nonStreamVars
    \/ ReadFails /\ UNCHANGED nonStreamVars

InitStreamOnly ==
    RetryIdle /\ InitStream /\ OthersIdle /\ parser = "OpenaiApi"

SpecStream == InitStreamOnly /\ [][NextStream]_vars

(***************************************************************************)
(* SpecSplit: one content text with inline <think> markers reaches the     *)
(* chat-completions parser cut into at most MaxPieces content deltas, at   *)
(* any positions, the positions inside the markers included.               *)
(***************************************************************************)
MaxPieces == 2

\* content texts a provider with inline thinking sends
SplitTexts ==
    {<<"a">> \o THINK_START \o <<"b">> \o THINK_END \o <<"c">>,
     THINK_START \o <<"d">> \o THINK_END}

ContentChunk(text) == Chunk(NoOpt, <<>>, {text}, NoOpt, NoOpt)

\* the next content delta of the stream: the next piece of one of the texts
ContentPiece ==
    /\ spc = "reading"
    /\ linesRead < MaxPieces
    /\ \E t \in SplitTexts : \E k \in (Len(received) + 1)..Len(t) :
        /\ SubSeq(t, 1, Len(received)) = received
        /\ LET piece == SubSeq(t, Len(received) + 1, k)
               r == processDelta(ContentChunk(piece), api)
           IN  /\ api' = r.st
               /\ lastLine' = Line("chunk",
                                   IF r.threw THEN "assembly" ELSE "none",
                                   ContentChunk(piece))
               /\ received' = received \o piece
    /\ linesRead' = linesRead + 1
    /\ UNCHANGED <<spc, reasoningCache>>

NextSplit ==
    \/ ContentPiece /\ UNCHANGED <<retryVars, parser, loopVars, builderVars, providerVars>>
    \/ StreamEnds /\ UNCHANGED nonStreamVars

InitSplit == RetryIdle /\ InitStream /\ OthersIdle /\ parser = "OpenaiApi"

SpecSplit == InitSplit /\ [][NextSplit]_vars

(***************************************************************************)
(* Responses parser: openaiResponsesApi.ts.  The object is the CommonApi   *)
(* record extended with reasoningSoFar and toolCallIdToIndex (the call ids *)
(* in the order their indices were handed out); inlineThinking is history: *)
(* the thinking text taken from inline <think> blocks.                     *)
(***************************************************************************)
NewResponsesApi ==
    [reasoningSoFar |-> <<>>, toolCallIdToIndex |-> <<>>,
     inlineThinking |-> <<>>] @@ NewApi

\* a JSON value of an event field: a string, an object with one string
\* property, an array of { text } items, or absent
Str(text) == [kind |-> "string", key |-> "", text |-> text, items |-> <<>>]
Obj(key, text) == [kind |-> "object", key |-> key, text |-> text, items |-> <<>>]
Arr(items) == [kind |-> "array", key |-> "", text |-> <<>>, items |-> items]
Absent == [kind |-> "absent", key |-> "", text |-> <<>>, items |-> <<>>]

\* OpenaiResponsesApi.coerceText
coerceText(value) ==
    IF value.kind = "string" THEN value.text
    ELSE IF /\ value.kind = "object"
            /\ value.key \in {"text", "thinking", "reasoning", "summary", "value"}
         THEN value.text
         ELSE <<>>

Uppers ==
    <<"A", "B", "C", "D", "E", "F", "G", "H", "I", "J", "K", "L", "M",
      "N", "O", "P", "Q", "R", "S", "T", "U", "V", "W", "X", "Y", "Z">>

Lowers ==
    <<"a", "b", "c", "d", "e", "f", "g", "h", "i", "j", "k", "l", "m",
      "n", "o", "p", "q", "r", "s", "t", "u", "v", "w", "x", "y", "z">>

\* String.prototype.toLowerCase
toLowerCase(text) ==
    [i \in 1..Len(text) |->
        IF \E k \in 1..Len(Uppers) : Uppers[k] = text[i]
        THEN Lowers[CHOOSE k \in 1..Len(Uppers) : Uppers[k] = text[i]]
        ELSE text[i]]

ConfigValues ==
    {<<"h", "i", "g", "h">>, <<"m", "e", "d", "i", "u", "m">>, <<"l", "o", "w">>,
     <<"m", "i", "n", "i", "m", "a", "l">>, <<"a", "u", "t", "o">>,
     <<"n", "o", "n", "e">>, <<"d", "e", "t", "a", "i", "l", "e", "d">>,
     <<"c", "o", "n", "c", "i", "s", "e">>}

looksLikeReasoningConfigValueCaseSensitive(value) == Trim(value) \in ConfigValues

\* OpenaiResponsesApi.looksLikeReasoningConfigValue
looksLikeReasoningConfigValue(value) == toLowerCase(Trim(value)) \in ConfigValues

bufferReasoningChunkWhole(text, st) ==
    IF text = <<>> THEN st
    ELSE bufferThinkingContent(text, [st EXCEPT !.reasoningSoFar = text])

\* OpenaiResponsesApi.bufferReasoningChunk
bufferReasoningChunk(text, st) ==
    IF text = <<>> THEN st
    ELSE LET soFar == st.reasoningSoFar
             extends == StartsWithAt(text, soFar, 1)
             seen == StartsWithAt(soFar, text, 1)
             delta == IF extends THEN SliceFrom(text, Len(soFar))
                      ELSE IF seen THEN <<>> ELSE text
             kept == [st EXCEPT !.reasoningSoFar =
                         IF extends THEN text
                         ELSE IF seen THEN @ ELSE @ \o text]
         IN  IF delta # <<>> THEN bufferThinkingContent(delta, kept) ELSE kept

RECURSIVE Join(_, _)
\* Array.prototype.join(sep) of an array of texts
Join(texts, sep) ==
    IF texts = <<>> THEN <<>>
    ELSE IF Len(texts) = 1 THEN texts[1]
    ELSE texts[1] \o sep \o Join(Tail(texts), sep)

NonEmpty(text) == text # <<>>

\* OpenaiResponsesApi.extractSummaryText
extractSummaryText(value) ==
    IF value.kind = "string" THEN value.text
    ELSE IF value.kind = "absent" THEN <<>>
    ELSE IF value.kind = "array"
         THEN Join(SelectSeq(value.items, NonEmpty), <<"\n">>)
         ELSE coerceText(value)

\* `if (x && !this.looksLikeReasoningConfigValue(x)) parts.push(x)`
PushReasoning(parts, x) ==
    IF x # <<>> /\ ~looksLikeReasoningConfigValue(x) THEN Append(parts, x)
    ELSE parts

RECURSIVE ReasoningItems(_, _)
\* the loop of extractReasoningFromResponse over response.output
ReasoningItems(output, parts) ==
    IF output = <<>> THEN parts
    ELSE LET item == Head(output)
         IN  IF item.type \notin {"reasoning", "reasoning_summary"}
             THEN ReasoningItems(Tail(output), parts)
             ELSE LET text == IF coerceText(item.text) # <<>>
                              THEN coerceText(item.text)
                              ELSE coerceText(item.content)
                  IN  ReasoningItems(Tail(output),
                        PushReasoning(PushReasoning(parts, text),
                                      extractSummaryText(item.summary)))

\* .filter((p, idx, arr) => arr.indexOf(p) === idx)
Dedupe(texts) ==
    LET First(i) == \A j \in 1..(i - 1) : texts[j] # texts[i]
        kept == {i \in 1..Len(texts) : First(i)}
        Nth(n) == CHOOSE i \in kept : Cardinality({j \in kept : j < i}) = n - 1
    IN  [n \in 1..Cardinality(kept) |-> texts[Nth(n)]]

\* OpenaiResponsesApi.extractReasoningFromResponse
extractReasoningFromResponse(response) ==
    LET direct == PushReasoning(
                    PushReasoning(<<>>, coerceText(response.reasoning)),
                    coerceText(response.reasoning_summary))
        parts == ReasoningItems(response.output, direct)
        trimmed == [i \in 1..Len(parts) |-> Trim(parts[i])]
    IN  Join(Dedupe(SelectSeq(trimmed, NonEmpty)), <<"\n", "\n">>)

\* report the text and remember that assistant text was emitted
OutputText(st, text) ==
    [Report(reportEndThinking(st), TextPart(text, "content"))
        EXCEPT !.hasEmittedAssistantText = TRUE]

\* buffer text of an inline <think> block
InlineThinking(st, text) ==
    [bufferThinkingContent(text, st) EXCEPT !.inlineThinking = @ \o text]

RECURSIVE processOutputTextChunk(_, _)
\* OpenaiResponsesApi.processOutputTextChunk
processOutputTextChunk(data, st) ==
    IF Len(data) = 0 THEN st
    ELSE IF ~st.xmlThinkActive
    THEN LET startIdx == IndexOf(data, THINK_START)
         IN  IF startIdx = -1 THEN OutputText(st, data)
             ELSE LET before == SliceTo(data, startIdx)
                      said == IF before # <<>> THEN OutputText(st, before) ELSE st
                      ended == reportEndThinking(said)
                  IN  processOutputTextChunk(
                        SliceFrom(data, startIdx + Len(THINK_START)),
                        [ended EXCEPT !.xmlThinkActive = TRUE,
                                      !.currentThinkingId = generateThinkingId(ended),
                                      !.thinkingIds = generateThinkingId(ended)])
    ELSE LET endIdx == IndexOf(data, THINK_END)
         IN  IF endIdx = -1 THEN InlineThinking(st, data)
             ELSE LET taken == InlineThinking(st, SliceTo(data, endIdx))
                  IN  processOutputTextChunk(
                        SliceFrom(data, endIdx + Len(THINK_END)),
                        reportEndThinking([taken EXCEPT !.xmlThinkActive = FALSE]))

\* an item of response.output, or the item of an output_item event
Item(type, callId, name, arguments, text, content, summary) ==
    [type |-> type, call_id |-> callId, name |-> name, arguments |-> arguments,
     text |-> text, content |-> content, summary |-> summary]

NoEvent ==
    [type |-> "", delta |-> Absent, text |-> Absent, reasoning |-> Absent,
     summary |-> Absent, call_id |-> NoOpt, name |-> NoOpt, arguments |-> Absent,
     item |-> NoOpt, response |-> NoOpt]

\* `typeof x === "string" ? x : ""`
StringOf(value) == IF value.kind = "string" THEN value.text ELSE <<>>

ReasoningEventTypes ==
    {"response.reasoning.delta", "response.reasoning_text.delta",
     "response.reasoning_summary.delta", "response.reasoning_summary_text.delta",
     "response.thinking.delta", "response.thinking_summary.delta",
     "response.thought.delta", "response.thought_summary.delta",
     "response.reasoning.done", "response.reasoning_text.done",
     "response.reasoning_summary.done", "response.reasoning_summary_text.done",
     "response.thinking.done", "response.thinking_summary.done",
     "response.thought.done", "response.thought_summary.done"}

\* the candidates of a reasoning event: [delta, text, reasoning,
\* summary].map(coerceText).filter(Boolean)
Candidates(event) ==
    SelectSeq(<<coerceText(event.delta), coerceText(event.text),
                coerceText(event.reasoning), coerceText(event.summary)>>,
              NonEmpty)

RECURSIVE CandidatesLoop(_, _)
\* the for loop over the candidates: the first that is no configuration
\* value is buffered
CandidatesLoop(candidates, st) ==
    IF candidates = <<>> THEN st
    ELSE IF looksLikeReasoningConfigValue(Head(candidates))
         THEN CandidatesLoop(Tail(candidates), st)
         ELSE bufferReasoningChunk(Head(candidates), st)

\* getToolCallIndex: the index of the call id, a fresh one when it is new
IndexOfCallId(st, callId) ==
    IF \E i \in 1..Len(st.toolCallIdToIndex) : st.toolCallIdToIndex[i] = callId
    THEN (CHOOSE i \in 1..Len(st.toolCallIdToIndex) :
            st.toolCallIdToIndex[i] = callId) - 1
    ELSE Len(st.toolCallIdToIndex)

getToolCallIndex(st, callId) ==
    IF \E i \in 1..Len(st.toolCallIdToIndex) : st.toolCallIdToIndex[i] = callId
    THEN st
    ELSE [st EXCEPT !.toolCallIdToIndex = Append(@, callId)]

HintAlways(st) == TRUE

\* `!this._emittedBeginToolCallsHint && this._hasEmittedAssistantText`
HintDue(st) == ~st.emittedBeginToolCallsHint /\ st.hasEmittedAssistantText

\* the one-space text reported before the first tool call
BeginToolCallsHint(st) ==
    IF HintDue(st)
    THEN [Report(st, TextPart(<<" ">>, "hint"))
            EXCEPT !.emittedBeginToolCallsHint = TRUE]
    ELSE st

\* this._toolCallBuffers.get(idx) ?? { args: "" }
BufferOrNew(st, idx) ==
    LET i == BufferPos(st.toolCallBuffers, idx)
    IN  IF i = 0 THEN [index |-> idx, id |-> NoOpt, name |-> NoOpt, args |-> <<>>]
        ELSE st.toolCallBuffers[i]

\* processEvent, the function_call_arguments.delta / .done and
\* function_call.done cases
FunctionCallEvent(event, st) ==
    LET ended == reportEndThinking(st)
        callId == Nullish(event.call_id, "")
        isDelta == event.type = "response.function_call_arguments.delta"
        chunk == IF isDelta THEN StringOf(event.delta) ELSE StringOf(event.arguments)
    IN  IF callId = "" THEN [st |-> ended, threw |-> FALSE]
        ELSE LET hinted == getToolCallIndex(BeginToolCallsHint(ended), callId)
                 idx == IndexOfCallId(hinted, callId)
             IN  IF AlreadyCompleted(hinted, idx) THEN [st |-> hinted, threw |-> FALSE]
                 ELSE LET buf == BufferOrNew(hinted, idx)
                          merged == [buf EXCEPT
                                       !.id = {callId},
                                       !.name = IF event.name # NoOpt /\ event.name # {""}
                                                THEN event.name ELSE @,
                                       !.args = IF chunk = <<>> THEN @
                                                ELSE IF isDelta THEN @ \o chunk
                                                ELSE chunk]
                          tried == tryEmitBufferedToolCall(idx,
                                     [hinted EXCEPT !.toolCallBuffers = BufferSet(@, merged)])
                      IN  IF isDelta THEN [st |-> tried, threw |-> FALSE]
                          ELSE flushToolCallBuffers(tried, TRUE)

\* processEvent, the output_item.added / .done case
OutputItemEvent(event, st) ==
    IF event.item = NoOpt THEN st
    ELSE LET item == CHOOSE x \in event.item : TRUE
         IN  IF item.type # "function_call" THEN st
             ELSE LET ended == reportEndThinking(st)
                      callId == Nullish(item.call_id, "")
                  IN  IF callId = "" THEN ended
                      ELSE LET hinted == getToolCallIndex(BeginToolCallsHint(ended), callId)
                               idx == IndexOfCallId(hinted, callId)
                           IN  IF AlreadyCompleted(hinted, idx) THEN hinted
                               ELSE LET buf == BufferOrNew(hinted, idx)
                                        args == StringOf(item.arguments)
                                        merged == [buf EXCEPT
                                           !.id = {callId},
                                           !.name = IF item.name # NoOpt /\ item.name # {""}
                                                    THEN item.name ELSE @,
                                           !.args = IF args # <<>> THEN args ELSE @]
                                    IN  tryEmitBufferedToolCall(idx,
                                          [hinted EXCEPT
                                             !.toolCallBuffers = BufferSet(@, merged)])

RECURSIVE OutputTextParts(_)
\* extractOutputText, the loop: the text of the output_text parts of the items
OutputTextParts(output) ==
    IF output = <<>> THEN <<>>
    ELSE (IF Head(output).content.kind = "array"
          THEN Join(SelectSeq(Head(output).content.items, NonEmpty), <<>>)
          ELSE <<>>) \o OutputTextParts(Tail(output))

\* OpenaiResponsesApi.extractOutputText
extractOutputText(response) ==
    IF response.output_text # NoOpt /\ Trim(Nullish(response.output_text, <<>>)) # <<>>
    THEN Nullish(response.output_text, <<>>)
    ELSE OutputTextParts(response.output)

extractNoToolCalls(response) == <<>>

\* OpenaiResponsesApi.extractToolCalls
extractToolCalls(response) ==
    LET Complete(item) ==
            /\ item.type = "function_call"
            /\ Nullish(item.call_id, "") # ""
            /\ Nullish(item.name, "") # ""
            /\ StringOf(item.arguments) # <<>>
    IN  SelectSeq(response.output, Complete)

RECURSIVE CallsLoop(_, _)
\* the for loop of the response.completed case over the calls
CallsLoop(calls, st) ==
    IF calls = <<>> THEN st
    ELSE LET call == Head(calls)
             callId == Nullish(call.call_id, "")
             indexed == getToolCallIndex(st, callId)
             idx == IndexOfCallId(indexed, callId)
         IN  IF AlreadyCompleted(indexed, idx) THEN CallsLoop(Tail(calls), indexed)
             ELSE LET buf == [BufferOrNew(indexed, idx) EXCEPT
                                !.id = {callId}, !.name = call.name,
                                !.args = StringOf(call.arguments)]
                  IN  CallsLoop(Tail(calls),
                        tryEmitBufferedToolCall(idx,
                          [indexed EXCEPT !.toolCallBuffers = BufferSet(@, buf)]))

\* processEvent, the response.completed / response.done case
CompletedEvent(event, st) ==
    IF event.response = NoOpt THEN flushToolCallBuffers(st, TRUE)
    ELSE LET response == CHOOSE x \in event.response : TRUE
             reasoned == bufferReasoningChunk(extractReasoningFromResponse(response), st)
             text == extractOutputText(response)
             texted == IF ~reasoned.hasEmittedAssistantText
                       THEN processOutputTextChunk(text, reasoned)
                       ELSE reasoned
             calls == extractToolCalls(response)
             hinted == IF Len(calls) > 0
                       THEN BeginToolCallsHint(reportEndThinking(texted))
                       ELSE texted
         IN  flushToolCallBuffers(CallsLoop(calls, hinted), TRUE)

\* OpenaiResponsesApi.processEvent: the state it leaves and whether it threw
processEvent(event, st) ==
    CASE event.type \in {"response.output_text.delta", "response.refusal.delta"} ->
           [st |-> processOutputTextChunk(coerceText(event.delta), st),
            threw |-> FALSE]
      [] event.type \in {"response.output_text.done", "response.refusal.done"} ->
           [st |-> IF st.hasEmittedAssistantText THEN st
                   ELSE processOutputTextChunk(coerceText(event.text), st),
            threw |-> FALSE]
      [] event.type \in ReasoningEventTypes ->
           [st |-> CandidatesLoop(Candidates(event), st), threw |-> FALSE]
      [] event.type \in {"response.function_call_arguments.delta",
                         "response.function_call_arguments.done",
                         "response.function_call.done"} ->
           FunctionCallEvent(event, st)
      [] event.type \in {"response.output_item.added",
                         "response.output_item.done"} ->
           [st |-> OutputItemEvent(event, st), threw |-> FALSE]
      [] event.type \in {"response.completed", "response.done"} ->
           CompletedEvent(event, st)
      [] OTHER -> [st |-> st, threw |-> FALSE]

(***************************************************************************)
(* SpecResponses: one call of OpenaiResponsesApi.processStreamingResponse, *)
(* one line per step.  Its loop over the lines is that of the              *)
(* chat-completions parser (a line without "data:", "[DONE]", a payload    *)
(* that is no JSON, the debounce timer, the end of the stream) with        *)
(* processEvent in the place of processDelta.                              *)
(***************************************************************************)
\* reasoning texts: cumulative snapshots "H", "Hi", "Hi!", an unrelated text
\* and reasoning-effort words in upper case and with blanks around
SnapshotTexts == {<<"H">>, <<"H", "i">>, <<"H", "i", "!">>, <<"o", "k">>}

EffortTexts == {<<"H", "i", "g", "h">>, <<" ", "l", "o", "w", " ">>}

ReasoningEvent(delta, text, summary) ==
    [NoEvent EXCEPT !.type = "response.reasoning_summary_text.delta",
                    !.delta = delta, !.text = text, !.summary = summary]

TextEvent(type, delta, text) ==
    [NoEvent EXCEPT !.type = type, !.delta = delta, !.text = text]

ArgumentsEvent(type, callId, delta, arguments) ==
    [NoEvent EXCEPT !.type = type, !.call_id = callId, !.delta = delta,
                    !.arguments = arguments]

ItemEvent(type, item) == [NoEvent EXCEPT !.type = type, !.item = {item}]

FunctionCallItem(callId, name, arguments) ==
    Item("function_call", callId, name, arguments, Absent, Absent, Absent)

Response(reasoning, outputText, output) ==
    [reasoning |-> reasoning, reasoning_summary |-> Absent,
     output_text |-> outputText, output |-> output]

CompletedWith(response) ==
    [NoEvent EXCEPT !.type = "response.completed", !.response = response]

ResponsesEvents ==
    {ReasoningEvent(Str(t), Absent, Absent) : t \in SnapshotTexts \cup EffortTexts}
    \cup {ReasoningEvent(Str(<<"H", "i", "g", "h">>), Str(<<"H", "i">>), Absent),
          ReasoningEvent(Absent, Absent, Obj("text", <<"H", "i", "!">>))}
    \cup {TextEvent("response.output_text.delta", Str(<<"x">>), Absent),
          TextEvent("response.output_text.delta",
                    Str(<<"a">> \o THINK_START \o <<"b">> \o THINK_END \o <<"c">>),
                    Absent),
          TextEvent("response.output_text.delta", Str(THINK_START \o <<"t">>), Absent),
          TextEvent("response.output_text.done", Absent, Str(<<"x">>))}
    \cup {ArgumentsEvent("response.function_call_arguments.delta", {"c1"},
                         Str(a), Absent) : a \in {ArgsOpen, ArgsClose}}
    \cup {ArgumentsEvent("response.function_call_arguments.done", {"c1"},
                         Absent, Str(ArgsObject)),
          ArgumentsEvent("response.function_call_arguments.done", NoOpt,
                         Absent, Str(ArgsObject)),
          [ArgumentsEvent("response.function_call.done", {"c2"}, Absent,
                          Str(ArgsObject)) EXCEPT !.name = {"g"}]}
    \cup {ItemEvent("response.output_item.added",
                    FunctionCallItem({"c1"}, {"f"}, Absent)),
          ItemEvent("response.output_item.done",
                    FunctionCallItem({"c2"}, {"g"}, Str(ArgsObject))),
          ItemEvent("response.output_item.added",
                    Item("message", NoOpt, NoOpt, Absent, Absent, Absent, Absent))}
    \cup {CompletedWith(NoOpt),
          CompletedWith({Response(Str(<<"H", "i", "!">>), NoOpt, <<>>)}),
          CompletedWith({Response(Str(<<" ", "l", "o", "w", " ">>), NoOpt,
             <<Item("reasoning", NoOpt, NoOpt, Absent, Absent, Absent,
                    Str(<<"H", "i", "g", "h">>))>>)}),
          CompletedWith({Response(Obj("summary", <<"a", "u", "t", "o">>), NoOpt,
             <<Item("reasoning", NoOpt, NoOpt, Absent, Absent, Absent,
                    Arr(<<<<"H", "i">>>>)),
               Item("message", NoOpt, NoOpt, Absent, Absent, Arr(<<<<"x">>>>),
                    Absent),
               FunctionCallItem({"c1"}, {"f"}, Str(ArgsObject))>>)})}
    \cup {[NoEvent EXCEPT !.type = "response.created"]}

InitResponses ==
    /\ spc = "reading"
    /\ linesRead = 0
    /\ reasoningCache = EmptyCache
    /\ api = NewResponsesApi
    /\ lastLine = [kind |-> "none", raised |-> "none", chunk |-> NoChoiceChunk]

\* try { await this.processEvent(JSON.parse(data), progress) } catch {}
LineEvent ==
    /\ CanReadLine
    /\ \E event \in ResponsesEvents :
        LET r == processEvent(event, api)
        IN  /\ \A i \in 1..Len(r.st.toolCallBuffers) :
                  Len(r.st.toolCallBuffers[i].args) <= MaxArgsLen
            /\ api' = r.st
            /\ lastLine' = Line("event", IF r.threw THEN "assembly" ELSE "none",
                                event)
    /\ linesRead' = linesRead + 1
    /\ UNCHANGED <<spc, reasoningCache>>

NextResponses ==
    \/ LineNotData /\ UNCHANGED nonStreamVars
    \/ LineDone /\ UNCHANGED nonStreamVars
    \/ LineMalformed /\ UNCHANGED nonStreamVars
    \/ LineEvent /\ UNCHANGED nonStreamVars
    \/ ThinkingTimerFires /\ UNCHANGED nonStreamVars
    \/ StreamEnds /\ UNCHANGED nonStreamVars
    \/ ReadFails /\ UNCHANGED nonStreamVars

InitResponsesOnly ==
    RetryIdle /\ InitResponses /\ OthersIdle /\ parser = "OpenaiResponsesApi"

SpecResponses == InitResponsesOnly /\ [][NextResponses]_vars

(***************************************************************************)
(* Message-block parser: anthropicApi.ts.  SpecAnthropic drives one call   *)
(* of AnthropicApi.processStreamingResponse, one line per step; its loop   *)
(* over the lines is that of the chat-completions parser with              *)
(* processAnthropicChunk in the place of processDelta.                     *)
(***************************************************************************)
\* a parsed chunk: kind is content_block.type or delta.type, payload is
\* content_block.thinking, delta.text, delta.thinking or delta.partial_json
AnthropicChunk(type, index, kind, id, name, payload) ==
    [type |-> type, index |-> index, kind |-> kind, id |-> id, name |-> name,
     payload |-> payload]

StopThrowsOnInvalid == TRUE

\* `await this.flushToolCallBuffers(progress, false)` at content_block_stop
\* and message_stop
StopThrowOnInvalid == FALSE

\* the chunk makes processAnthropicChunk throw: only the flush of a stop can
AnthropicChunkThrows(chunk, st) ==
    /\ chunk.type \in {"content_block_stop", "message_stop"}
    /\ flushToolCallBuffers(st, StopThrowOnInvalid).threw

\* AnthropicApi.processAnthropicChunk
processAnthropicChunk(chunk, st) ==
    LET idx == Nullish(chunk.index, 0)
    IN  CASE chunk.type = "content_block_start" /\ chunk.kind = "thinking" ->
               IF chunk.payload # <<>> THEN bufferThinkingContent(chunk.payload, st)
               ELSE st
          [] chunk.type = "content_block_start" /\ chunk.kind = "tool_use" ->
               [BeginToolCallsHint(st) EXCEPT !.toolCallBuffers =
                   BufferSet(@, [index |-> idx, id |-> chunk.id,
                                 name |-> chunk.name, args |-> <<>>])]
          [] chunk.type = "content_block_delta" /\ chunk.kind = "text_delta"
                /\ chunk.payload # <<>> ->
               [Report(st, TextPart(chunk.payload, "content"))
                   EXCEPT !.hasEmittedAssistantText = TRUE]
          [] chunk.type = "content_block_delta" /\ chunk.kind = "thinking_delta"
                /\ chunk.payload # <<>> ->
               bufferThinkingContent(chunk.payload, st)
          [] chunk.type = "content_block_delta" /\ chunk.kind = "input_json_delta"
                /\ chunk.payload # <<>> ->
               LET i == BufferPos(st.toolCallBuffers, idx)
               IN  IF i = 0 THEN st
                   ELSE tryEmitBufferedToolCall(idx,
                          [st EXCEPT !.toolCallBuffers[i].args = @ \o chunk.payload])
          [] chunk.type \in {"content_block_stop", "message_stop"} ->
               LET r == flushToolCallBuffers(st, StopThrowOnInvalid)
               IN  IF r.threw THEN r.st ELSE reportEndThinking(r.st)
          [] OTHER -> st

AnthropicChunks ==
    {AnthropicChunk(t, NoOpt, "", NoOpt, NoOpt, <<>>) :
        t \in {"ping", "message_delta", "content_block_stop", "message_stop"}}
    \cup {AnthropicChunk("content_block_start", {0}, k, NoOpt, NoOpt, <<>>) :
            k \in {"thinking", "text"}}
    \cup {AnthropicChunk("content_block_start", {i}, "tool_use", {"toolu_1"},
                         {"f"}, <<>>) : i \in Indices}
    \cup {AnthropicChunk("content_block_delta", {0}, "thinking_delta", NoOpt,
                         NoOpt, <<"r">>),
          AnthropicChunk("content_block_delta", {0}, "text_delta", NoOpt,
                         NoOpt, <<"x">>)}
    \cup {AnthropicChunk("content_block_delta", {0}, "input_json_delta", NoOpt,
                         NoOpt, a) : a \in {ArgsOpen, ArgsClose, ArgsObject}}

\* try { await this.processAnthropicChunk(JSON.parse(data), progress) }
\* catch (e) { console.error(...) }
LineAnthropic ==
    /\ CanReadLine
    /\ \E chunk \in AnthropicChunks :
        LET st == processAnthropicChunk(chunk, api)
        IN  /\ \A i \in 1..Len(st.toolCallBuffers) :
                  Len(st.toolCallBuffers[i].args) <= MaxArgsLen
            /\ api' = st
            /\ lastLine' = Line("block",
                                IF AnthropicChunkThrows(chunk, api)
                                THEN "logged" ELSE "none", chunk)
    /\ linesRead' = linesRead + 1
    /\ UNCHANGED <<spc, reasoningCache>>

(***************************************************************************)
(* SpecParsers: one stream handled by one of the three parsers; the        *)
(* provider picks the parser by the apiMode of the model.                  *)
(***************************************************************************)
InitParsers ==
    /\ RetryIdle
    /\ OthersIdle
    /\ parser \in {"OpenaiApi", "OpenaiResponsesApi", "AnthropicApi"}
    /\ spc = "reading"
    /\ linesRead = 0
    /\ reasoningCache = EmptyCache
    /\ api = IF parser = "OpenaiResponsesApi" THEN NewResponsesApi ELSE NewApi
    /\ lastLine = [kind |-> "none", raised |-> "none", chunk |-> NoChoiceChunk]

NextParsers ==
    \/ LineNotData /\ UNCHANGED nonStreamVars
    \/ LineDone /\ UNCHANGED nonStreamVars
    \/ LineMalformed /\ UNCHANGED nonStreamVars
    \/ parser = "OpenaiApi" /\ LineChunk /\ UNCHANGED nonStreamVars
    \/ parser = "OpenaiResponsesApi" /\ LineEvent /\ UNCHANGED nonStreamVars
    \/ parser = "AnthropicApi" /\ LineAnthropic /\ UNCHANGED nonStreamVars
    \/ ThinkingTimerFires /\ UNCHANGED nonStreamVars
    \/ StreamEnds /\ UNCHANGED nonStreamVars
    \/ ReadFails /\ UNCHANGED nonStreamVars

SpecParsers == InitParsers /\ [][NextParsers]_vars

(***************************************************************************)
(* SpecCancel: the read loop of processStreamingResponse with its chunk    *)
(* boundaries and the CancellationToken of the request.  The loop is the   *)
(* same text in the three parsers: the token is looked at before each      *)
(* reader.read(), and nowhere else.                                        *)
(***************************************************************************)
MaxChunkLines == 2

\* the lines the chunks of SpecCancel carry
CancelChunks ==
    {Chunk({<<"r">>}, <<>>, NoOpt, NoOpt, NoOpt),
     ContentChunk(<<"x">>),
     ContentChunk(THINK_START \o <<"d">> \o THINK_END),
     Chunk(NoOpt, <<>>, NoOpt, {<<ToolCallDelta({0}, {"call_1"}, {"f"}, {ArgsObject})>>}, NoOpt),
     Chunk(NoOpt, <<>>, NoOpt, {<<ToolCallDelta({1}, NoOpt, NoOpt, {ArgsObject})>>}, NoOpt)}

At(at, left) == [at |-> at, left |-> left]

\* `if (token.isCancellationRequested) break;` finds the token cancelled:
\* the finally block ends the thinking sequence and the call returns
TokenCheckBreaks ==
    /\ spc = "reading"
    /\ reader.at = "check"
    /\ cancellation.isCancellationRequested
    /\ api' = reportEndThinking(api)
    /\ reasoningCache' = CacheCaptured(parser, api, reasoningCache)
    /\ spc' = "returned"
    /\ lastLine' = Line("cancelled", "none", NoChoiceChunk)
    /\ UNCHANGED <<linesRead, reader>>

\* the token is not cancelled: `await reader.read()` is issued
ReadStarts ==
    /\ spc = "reading"
    /\ reader.at = "check"
    /\ ~cancellation.isCancellationRequested
    /\ reader' = At("read", 0)
    /\ UNCHANGED streamVars

\* reader.read() resolves with a chunk that completes some lines
ChunkArrives ==
    /\ spc = "reading"
    /\ reader.at = "read"
    /\ linesRead < MaxLines
    /\ \E n \in 1..MaxChunkLines : reader' = At("lines", n)
    /\ UNCHANGED streamVars

\* `for (const line of lines)`: the next line of the chunk is handled by
\* LineOf, after the last one the loop is back at the token check
InChunk(LineOf) ==
    /\ reader.at = "lines"
    /\ LineOf
    /\ reader' = IF reader.left = 1 \/ linesRead' = MaxLines
                 THEN At("check", 0)
                 ELSE At("lines", reader.left - 1)

\* the host cancels the request: token.isCancellationRequested becomes true
HostCancelsStream ==
    /\ spc = "reading"
    /\ ~cancellation.isCancellationRequested
    /\ cancellation' = [isCancellationRequested |-> TRUE,
                        during |-> reader.at, at |-> Len(api.reported)]
    /\ UNCHANGED <<retryConfig, rpc, attempt, lastError, rtrace>>

NextCancel ==
    \/ TokenCheckBreaks /\ UNCHANGED nonReadVars
    \/ ReadStarts /\ UNCHANGED nonReadVars
    \/ ChunkArrives /\ UNCHANGED nonReadVars
    \/ InChunk(LineChunkFrom(CancelChunks)) /\ UNCHANGED nonReadVars
    \/ InChunk(LineDone) /\ UNCHANGED nonReadVars
    \/ InChunk(LineMalformed) /\ UNCHANGED nonReadVars
    \/ HostCancelsStream /\ UNCHANGED nonRetryVars
    \/ ThinkingTimerFires /\ UNCHANGED nonStreamVars
    \/ reader.at = "read" /\ StreamEnds /\ UNCHANGED nonStreamVars
    \/ reader.at = "read" /\ ReadFails /\ UNCHANGED nonStreamVars

InitCancel ==
    /\ RetryIdle
    /\ InitStream
    /\ SplitIdle
    /\ BuildersIdle
    /\ ProviderIdle
    /\ parser = "OpenaiApi"
    /\ reader = At("check", 0)
    /\ framing = NotFraming

SpecCancel == InitCancel /\ [][NextCancel]_vars

(***************************************************************************)
(* Request builders.  A message of the host is its mapped role and the     *)
(* sequence of its parts; a part is a text, an image, a tool call, a tool  *)
(* result or a thinking part.  Generated ids (Date.now, Math.random) are   *)
(* left out of the items.                                                  *)
(***************************************************************************)
MsgPart(kind, value, callId, name) ==
    [kind |-> kind, value |-> value, callId |-> callId, name |-> name]

Message(role, content) == [role |-> role, content |-> content]

PartsOf(m, kind) == LET Is(part) == part.kind = kind IN SelectSeq(m.content, Is)

\* parts.map(p => p.value).join("")
JoinedValues(parts) == Join([i \in 1..Len(parts) |-> parts[i].value], <<>>)

\* an item of the Responses input array
InputItem(type, role, content, callId, name, text) ==
    [type |-> type, role |-> role, content |-> content, call_id |-> callId,
     name |-> name, text |-> text, status |-> "completed"]

ContentPart(type, text) == [type |-> type, text |-> text]

\* OpenaiResponsesApi.convertMessages: the items one message adds to out
ResponsesItems(m, includeReasoningInRequest) ==
    LET joinedText == Trim(JoinedValues(PartsOf(m, "text")))
        joinedThinking ==
            IF includeReasoningInRequest
            THEN Trim(JoinedValues(PartsOf(m, "thinking")))
            ELSE <<>>
        toolCalls == PartsOf(m, "toolCall")
        HasCallId(part) == part.callId # ""
        toolResults == SelectSeq(PartsOf(m, "toolResult"), HasCallId)
        imageParts == PartsOf(m, "image")
        contentArray ==
            (IF joinedText # <<>>
             THEN <<ContentPart("input_text", joinedText)>> ELSE <<>>)
            \o [i \in 1..Len(imageParts) |->
                   ContentPart("input_image", imageParts[i].value)]
    IN  (IF m.role = "assistant" /\ joinedText # <<>>
         THEN <<InputItem("message", "assistant",
                          <<ContentPart("output_text", joinedText)>>, "", "", <<>>)>>
         ELSE <<>>)
        \o (IF m.role = "assistant" /\ joinedThinking # <<>>
            THEN <<InputItem("reasoning", "", <<>>, "", "", joinedThinking)>>
            ELSE <<>>)
        \o (IF m.role = "assistant"
            THEN [i \in 1..Len(toolCalls) |->
                    InputItem("function_call", "", <<>>, toolCalls[i].callId,
                              toolCalls[i].name, <<>>)]
            ELSE <<>>)
        \o [i \in 1..Len(toolResults) |->
               InputItem("function_call_output", "", <<>>, toolResults[i].callId,
                         "", toolResults[i].value)]
        \o (IF m.role = "user" /\ contentArray # <<>>
            THEN <<InputItem("message", "user", contentArray, "", "", <<>>)>>
            ELSE <<>>)

RECURSIVE ResponsesLoop(_, _)
\* `for (const m of messages)` of OpenaiResponsesApi.convertMessages
ResponsesLoop(messages, includeReasoningInRequest) ==
    IF messages = <<>> THEN <<>>
    ELSE ResponsesItems(Head(messages), includeReasoningInRequest)
         \o ResponsesLoop(Tail(messages), includeReasoningInRequest)

\* "the last user message may be incomplete"
MarkLast(out) ==
    IF Len(out) > 0 /\ out[Len(out)].type = "message" /\ out[Len(out)].role = "user"
    THEN [out EXCEPT ![Len(out)].status = "incomplete"]
    ELSE out

\* OpenaiResponsesApi.convertMessages
convertMessagesResponses(messages, includeReasoningInRequest) ==
    MarkLast(ResponsesLoop(messages, includeReasoningInRequest))

\* a content block of a message of the message-block builder
Block(type, text, id, name) == [type |-> type, text |-> text, id |-> id, name |-> name]

\* AnthropicApi.convertMessages: the content blocks of a message that is not
\* a system message
AnthropicBlocks(m, includeReasoningInRequest) ==
    LET joinedText == Trim(JoinedValues(PartsOf(m, "text")))
        joinedThinking == Trim(JoinedValues(PartsOf(m, "thinking")))
        imageParts == PartsOf(m, "image")
        toolCalls == PartsOf(m, "toolCall")
        toolResults == PartsOf(m, "toolResult")
    IN  (IF joinedText # <<>> THEN <<Block("text", joinedText, "", "")>> ELSE <<>>)
        \o [i \in 1..Len(imageParts) |-> Block("image", imageParts[i].value, "", "")]
        \o (IF m.role = "assistant" /\ includeReasoningInRequest
               /\ joinedThinking # <<>>
            THEN <<Block("thinking", joinedThinking, "", "")>> ELSE <<>>)
        \o [i \in 1..Len(toolCalls) |->
               Block("tool_use", <<>>, toolCalls[i].callId, toolCalls[i].name)]
        \o (IF m.role = "user"
            THEN [i \in 1..Len(toolResults) |->
                    Block("tool_result", toolResults[i].value,
                          toolResults[i].callId, "")]
            ELSE <<>>)

\* the message reaches `console.warn("... Tool results found in non-user
\* message, ignoring")`: a system message left the loop body before it
WarnsForDroppedResults(m) ==
    m.role \notin {"system", "user"} /\ PartsOf(m, "toolResult") # <<>>

RECURSIVE AnthropicLoop(_, _, _, _)
\* `for (const m of messages)` of AnthropicApi.convertMessages; warnings is
\* the positions of the messages console.warn was called for
AnthropicLoop(messages, k, includeReasoningInRequest, acc) ==
    IF k > Len(messages) THEN acc
    ELSE LET m == messages[k]
             contentBlocks == AnthropicBlocks(m, includeReasoningInRequest)
             joinedText == Trim(JoinedValues(PartsOf(m, "text")))
             next ==
                IF m.role = "system"
                THEN [acc EXCEPT !.system = IF joinedText # <<>> THEN joinedText ELSE @]
                ELSE [acc EXCEPT
                        !.out = IF contentBlocks # <<>>
                                THEN Append(@, [role |-> m.role, content |-> contentBlocks])
                                ELSE @]
         IN  AnthropicLoop(messages, k + 1, includeReasoningInRequest,
                           [next EXCEPT !.warnings =
                                IF WarnsForDroppedResults(m) THEN Append(@, k) ELSE @])

\* AnthropicApi.convertMessages
convertMessagesAnthropic(messages, includeReasoningInRequest) ==
    AnthropicLoop(messages, 1, includeReasoningInRequest,
                  [out |-> <<>>, system |-> <<>>, warnings |-> <<>>])

\* `if (tools.length !== 1)` under ToolMode.Required
RequiredRejects(tools) == Len(tools) # 1

\* convertToolsToOpenAI(options); tool_choice <<>> is no tool_choice,
\* <<"auto">> is "auto", <<name>> names the function
convertToolsToOpenAI(tools, toolMode) ==
    IF Len(tools) = 0
    THEN [threw |-> FALSE, tools |-> <<>>, tool_choice |-> <<>>]
    ELSE IF toolMode = "Required" /\ RequiredRejects(tools)
    THEN [threw |-> TRUE, tools |-> <<>>, tool_choice |-> <<>>]
    ELSE [threw |-> FALSE,
          tools |-> [i \in 1..Len(tools) |-> [type |-> "function", name |-> tools[i]]],
          tool_choice |-> IF toolMode = "Required" THEN <<tools[1]>> ELSE <<"auto">>]

(***************************************************************************)
(* SpecBuilders: one request of the host handed to a builder.              *)
(***************************************************************************)
MaxTurns == 2
MaxTools == 2

\* the contents a turn of the host's conversation may have
TurnContents ==
    {<<MsgPart("text", <<"h", "i">>, "", "")>>,
     <<MsgPart("text", <<" ">>, "", "")>>,
     <<MsgPart("toolResult", <<"o">>, "call_1", "")>>,
     <<MsgPart("text", <<"t">>, "", ""), MsgPart("toolResult", <<"o">>, "call_1", "")>>,
     <<MsgPart("thinking", <<"r">>, "", ""), MsgPart("toolCall", <<>>, "call_1", "f")>>,
     <<MsgPart("image", <<"p">>, "", "")>>}

Turns == {Message(role, c) : role \in {"system", "user", "assistant"}, c \in TurnContents}

Conversations == UNION {[1..n -> Turns] : n \in 1..MaxTurns}

ToolLists == UNION {[1..n -> {"f", "g"}] : n \in 0..MaxTools}

InitBuilder ==
    /\ request \in [messages : Conversations, tools : ToolLists,
                     toolMode : {"Auto", "Required"}]
    /\ built = NotBuilt

\* openaiResponsesApi.convertMessages(messages, modelConfig)
BuildResponsesInput ==
    /\ built = NotBuilt
    /\ \E include \in BOOLEAN :
        built' = [by |-> "responses", include |-> include,
                  out |-> convertMessagesResponses(request.messages, include)]
    /\ UNCHANGED request

\* anthropicApi.convertMessages(messages, modelConfig)
BuildAnthropicMessages ==
    /\ built = NotBuilt
    /\ \E include \in BOOLEAN :
        built' = [by |-> "anthropic", include |-> include]
                 @@ convertMessagesAnthropic(request.messages, include)
    /\ UNCHANGED request

\* prepareRequestBody: `const toolConfig = convertToolsToOpenAI(options)`
BuildTools ==
    /\ built = NotBuilt
    /\ built' = [by |-> "tools"]
                 @@ convertToolsToOpenAI(request.tools, request.toolMode)
    /\ UNCHANGED request

nonBuilderVars == <<retryVars, streamVars, splitVars, parser, loopVars, providerVars>>

NextBuilders ==
    \/ BuildResponsesInput /\ UNCHANGED nonBuilderVars
    \/ BuildAnthropicMessages /\ UNCHANGED nonBuilderVars
    \/ BuildTools /\ UNCHANGED nonBuilderVars

InitBuildersOnly ==
    /\ RetryIdle
    /\ StreamIdle
    /\ SplitIdle
    /\ LoopIdle
    /\ ProviderIdle
    /\ parser = "none"
    /\ InitBuilder

SpecBuilders == InitBuildersOnly /\ [][NextBuilders]_vars

(***************************************************************************)
(* Credential resolution: HuggingFaceChatModelProvider.ensureApiKey and    *)
(* the check of its result in provideLanguageModelChatResponse.  Each      *)
(* await of ensureApiKey (secrets.get, showInputBox with the store that    *)
(* follows it) is one step.                                                *)
(***************************************************************************)
GENERIC_KEY == <<"oaicopilot.apiKey">>

\* `oaicopilot.apiKey.${normalizedProvider}`
ProviderKeyName(provider) ==
    <<"oaicopilot.apiKey.">> \o toLowerCase(Trim(provider))

\* secrets.get(key): the stored value, undefined ({}) when there is none
SecretsGet(store, key) == {e.value : e \in {x \in store : x.key = key}}

\* secrets.store(key, value)
SecretsStore(store, key, value) ==
    {x \in store : x.key # key} \cup {[key |-> key, value |-> value]}

\* `provider && provider.trim() !== ""`
HasProvider(provider) == provider # {} /\ Trim(Nullish(provider, <<>>)) # <<>>

\* `!apiKey`: undefined or the empty string
NoKey(apiKey) == apiKey = {} \/ apiKey = {<<>>}

\* `if (!apiKey && !useGenericKey)` after the provider-specific lookup
ProviderPromptDue(c) == NoKey(c.apiKey) /\ ~c.useGenericKey

CredTrace(c, step) == [c EXCEPT !.trace = Append(@, step)]

\* after the provider-specific part: `if (!apiKey)` secrets.get of the
\* generic key, else on to the second prompt condition
AfterProviderPart(c) ==
    IF NoKey(c.apiKey) THEN [c EXCEPT !.pc = "genericGet"]
    ELSE [c EXCEPT !.pc = "return"]

\* after the generic lookup: `if (!apiKey && useGenericKey)` showInputBox
AfterGenericGet(c) ==
    IF NoKey(c.apiKey) /\ c.useGenericKey THEN [c EXCEPT !.pc = "genericPrompt"]
    ELSE [c EXCEPT !.pc = "return"]

\* what showInputBox returns turned into the key: `entered && entered.trim()`
EnteredKey(entered) ==
    IF entered # {} /\ Trim(Nullish(entered, <<>>)) # <<>>
    THEN {Trim(Nullish(entered, <<>>))} ELSE {}

\* the call of ensureApiKey(useGenericKey, provider) up to its first await
EnsureApiKeyCalled ==
    /\ cred.pc = "called"
    /\ cred' = IF HasProvider(cred.provider)
               THEN [cred EXCEPT !.pc = "providerGet"]
               ELSE AfterProviderPart(cred)
    /\ UNCHANGED secrets

\* apiKey = await this.secrets.get(providerKey)
ProviderKeyLookup ==
    /\ cred.pc = "providerGet"
    /\ LET key == ProviderKeyName(Nullish(cred.provider, <<>>))
           got == [CredTrace(cred, [op |-> "get", key |-> key,
                                    found |-> SecretsGet(secrets, key) # {}])
                     EXCEPT !.apiKey = SecretsGet(secrets, key)]
       IN  cred' = IF ProviderPromptDue(got)
                   THEN [got EXCEPT !.pc = "providerPrompt"]
                   ELSE AfterProviderPart(got)
    /\ UNCHANGED secrets

\* showInputBox for the provider's key; an entered key is stored
ProviderKeyPrompt ==
    /\ cred.pc = "providerPrompt"
    /\ \E entered \in {{}, {<<" ">>}, {<<"k", " ">>}} :
        LET key == ProviderKeyName(Nullish(cred.provider, <<>>))
            apiKey == EnteredKey(entered)
            asked == CredTrace(cred, [op |-> "prompt", key |-> key,
                                      found |-> apiKey # {}])
        IN  /\ cred' = AfterProviderPart([asked EXCEPT !.apiKey = apiKey])
            /\ secrets' = IF apiKey # {}
                          THEN SecretsStore(secrets, key, Nullish(apiKey, <<>>))
                          ELSE secrets

\* apiKey = await this.secrets.get("oaicopilot.apiKey")
GenericKeyLookup ==
    /\ cred.pc = "genericGet"
    /\ cred' = AfterGenericGet(
                 [CredTrace(cred, [op |-> "get", key |-> GENERIC_KEY,
                                   found |-> SecretsGet(secrets, GENERIC_KEY) # {}])
                    EXCEPT !.apiKey = SecretsGet(secrets, GENERIC_KEY)])
    /\ UNCHANGED secrets

\* showInputBox for the generic key; an entered key is stored
GenericKeyPrompt ==
    /\ cred.pc = "genericPrompt"
    /\ \E entered \in {{}, {<<" ">>}, {<<"k", " ">>}} :
        LET apiKey == EnteredKey(entered)
            asked == CredTrace(cred, [op |-> "prompt", key |-> GENERIC_KEY,
                                      found |-> apiKey # {}])
        IN  /\ cred' = [asked EXCEPT !.apiKey = apiKey, !.pc = "return"]
            /\ secrets' = IF apiKey # {}
                          THEN SecretsStore(secrets, GENERIC_KEY, Nullish(apiKey, <<>>))
                          ELSE secrets

\* `if (!modelApiKey) throw new Error("OAI Compatible API key not found")`,
\* otherwise the request goes on to the fetch
ApiKeyChecked ==
    /\ cred.pc = "return"
    /\ cred' = [cred EXCEPT !.pc = IF NoKey(cred.apiKey) THEN "threw" ELSE "fetch"]
    /\ UNCHANGED secrets

\* the keys SecretStorage may hold when the request starts
StoredSecrets ==
    SUBSET {[key |-> GENERIC_KEY, value |-> <<"g">>],
            [key |-> ProviderKeyName(<<"p">>), value |-> <<"s">>]}

\* um?.owned_by
OwnedBy == {{}, {<<" ">>}, {<<"P", " ">>}}

InitCred ==
    /\ secrets \in StoredSecrets
    /\ cred \in [pc : {"called"}, useGenericKey : BOOLEAN, provider : OwnedBy,
                  apiKey : {{}}, trace : {<<>>}]

nonCredVars ==
    <<retryVars, streamVars, splitVars, parser, loopVars, builderVars,
      pacingVars, isolationVars>>

NextCredential ==
    \/ EnsureApiKeyCalled /\ UNCHANGED nonCredVars
    \/ ProviderKeyLookup /\ UNCHANGED nonCredVars
    \/ ProviderKeyPrompt /\ UNCHANGED nonCredVars
    \/ GenericKeyLookup /\ UNCHANGED nonCredVars
    \/ GenericKeyPrompt /\ UNCHANGED nonCredVars
    \/ ApiKeyChecked /\ UNCHANGED nonCredVars

InitCredentialOnly ==
    /\ RetryIdle
    /\ StreamIdle
    /\ SplitIdle
    /\ LoopIdle
    /\ BuildersIdle
    /\ PacingIdle
    /\ IsolationIdle
    /\ parser = "none"
    /\ InitCred

SpecCredential == InitCredentialOnly /\ [][NextCredential]_vars

(***************************************************************************)
(* Pacing: the delay between consecutive requests in                       *)
(* provideLanguageModelChatResponse.  Two calls on the same provider       *)
(* object; the host may issue the second while the first is running.  The  *)
(* credential resolution and the request itself are the steps between the  *)
(* awaits, their outcome is chosen freely.                                 *)
(***************************************************************************)
MaxTime == 4

\* um?.delay (undefined is {}) and the setting oaicopilot.delay
ModelDelays == {{}, {0}, {2}}
GlobalDelays == {0, 3}

delayMsOrGlobal(modelDelay, globalDelay) ==
    IF modelDelay # {} /\ modelDelay # {0}
    THEN CHOOSE x \in modelDelay : TRUE ELSE globalDelay

\* `modelDelay !== undefined ? modelDelay : globalDelay`
delayMs(modelDelay, globalDelay) ==
    IF modelDelay # {} THEN CHOOSE x \in modelDelay : TRUE ELSE globalDelay

\* `delayMs > 0 && this._lastRequestTime !== null && elapsed < delayMs`:
\* the remaining delay, 0 when the call does not wait
remainingDelay(d, last, now) ==
    IF d > 0 /\ last # {} /\ now - Nullish(last, 0) < d
    THEN d - (now - Nullish(last, 0))
    ELSE 0

\* the host calls provideLanguageModelChatResponse: the code up to the
\* first await, the setTimeout of the delay or the credential resolution
CallStarts(r) ==
    /\ chatCalls[r].pc = "idle"
    /\ \E modelDelay \in ModelDelays, globalDelay \in GlobalDelays :
        LET d == delayMs(modelDelay, globalDelay)
            wait == remainingDelay(d, lastRequestTime, clock)
        IN  chatCalls' = [chatCalls EXCEPT ![r] =
                [@ EXCEPT !.pc = IF wait > 0 THEN "delay" ELSE "key",
                          !.modelDelay = modelDelay,
                          !.globalDelay = globalDelay,
                          !.delayMs = d,
                          !.startedAt = clock,
                          !.wakeAt = clock + wait]]
    /\ UNCHANGED <<clock, lastRequestTime>>

\* the setTimeout of the delay fires, not before its time
DelayElapses(r) ==
    /\ chatCalls[r].pc = "delay"
    /\ clock >= chatCalls[r].wakeAt
    /\ chatCalls' = [chatCalls EXCEPT ![r].pc = "key"]
    /\ UNCHANGED <<clock, lastRequestTime>>

\* ensureApiKey returned a key and the base URL is valid: the request is
\* built and handed to fetch
RequestSubmitted(r) ==
    /\ chatCalls[r].pc = "key"
    /\ chatCalls' = [chatCalls EXCEPT ![r].pc = "fetch", ![r].submittedAt = {clock}]
    /\ UNCHANGED <<clock, lastRequestTime>>

\* no key or no valid base URL: the call throws before the fetch; the
\* finally block sets _lastRequestTime
RequestRejected(r) ==
    /\ chatCalls[r].pc = "key"
    /\ chatCalls' = [chatCalls EXCEPT ![r].pc = "threw", ![r].completedAt = {clock}]
    /\ lastRequestTime' = {clock}
    /\ UNCHANGED clock

\* the response was streamed to its end, or the request failed: the
\* finally block sets _lastRequestTime
RequestCompletes(r) ==
    /\ chatCalls[r].pc = "fetch"
    /\ \E outcome \in {"returned", "threw"} :
        chatCalls' = [chatCalls EXCEPT ![r].pc = outcome, ![r].completedAt = {clock}]
    /\ lastRequestTime' = {clock}
    /\ UNCHANGED clock

\* time passes
Tick ==
    /\ clock < MaxTime
    /\ clock' = clock + 1
    /\ UNCHANGED <<lastRequestTime, chatCalls>>

nonPacingVars ==
    <<retryVars, streamVars, splitVars, parser, loopVars, builderVars,
      credVars, isolationVars>>

NextPacing ==
    \/ \E r \in Calls : CallStarts(r) /\ UNCHANGED nonPacingVars
    \/ \E r \in Calls : DelayElapses(r) /\ UNCHANGED nonPacingVars
    \/ \E r \in Calls : RequestSubmitted(r) /\ UNCHANGED nonPacingVars
    \/ \E r \in Calls : RequestRejected(r) /\ UNCHANGED nonPacingVars
    \/ \E r \in Calls : RequestCompletes(r) /\ UNCHANGED nonPacingVars
    \/ Tick /\ UNCHANGED nonPacingVars

InitPacing ==
    /\ RetryIdle
    /\ StreamIdle
    /\ SplitIdle
    /\ LoopIdle
    /\ BuildersIdle
    /\ CredIdle
    /\ IsolationIdle
    /\ parser = "none"
    /\ PacingIdle

SpecPacing == InitPacing /\ [][NextPacing]_vars

(***************************************************************************)
(* Two concurrent calls and their parsers.  Each call creates its parser   *)
(* object before it sends the request and streams its response through     *)
(* it; the lines of the two responses, the debounce timers and the ends of *)
(* the streams interleave freely.  parsers is the heap of parser objects,  *)
(* a reference is a position in it (0 is no object).                       *)
(***************************************************************************)
MaxFed == 2

\* the chunks the lines of the two responses carry: reasoning, text and a
\* whole tool call
IsolationChunks ==
    {Chunk({<<"r">>}, <<>>, NoOpt, NoOpt, NoOpt),
     ContentChunk(<<"x">>),
     Chunk(NoOpt, <<>>, NoOpt, {<<ToolCallDelta({0}, {"call_1"}, {"f"}, {ArgsObject})>>}, NoOpt)}

NotStreaming == [pc |-> "idle", ref |-> 0, inputs |-> <<>>]

Streaming(r) == fed[r].pc = "reading"

reuseOpenaiApi(heap) ==
    IF heap = <<>>
    THEN [heap |-> <<NewApi>>, ref |-> 1]
    ELSE [heap |-> heap, ref |-> 1]

\* `const openaiApi = new OpenaiApi()`: a fresh object on the heap
newOpenaiApi(heap) == [heap |-> Append(heap, NewApi), ref |-> Len(heap) + 1]

\* what a call does with its parser: one line of its response, the
\* callback of its debounce timer, the end of its stream
Input(kind, chunk) == [kind |-> kind, chunk |-> chunk]

\* the parser after one input
Step(input, st) ==
    CASE input.kind = "chunk" -> processDelta(input.chunk, st).st
      [] input.kind = "done" -> flushToolCallBuffers(st, DoneThrowOnInvalid).st
      [] input.kind = "timer" -> flushThinkingBuffer(st, "timer")
      [] OTHER -> reportEndThinking(st)

\* call r hands an input to the parser it holds
Feed(r, input) ==
    /\ parsers' = [parsers EXCEPT ![fed[r].ref] = Step(input, @)]
    /\ reasoningCache' =
          IF input.kind = "end"
          THEN CacheCaptured("OpenaiApi", parsers[fed[r].ref], reasoningCache)
          ELSE reasoningCache
    /\ fed' = [fed EXCEPT ![r].inputs = Append(@, input),
                          ![r].pc = IF input.kind = "end" THEN "returned" ELSE @]

\* the call creates its parser and starts to stream the response
StreamOpens(r) ==
    /\ fed[r].pc = "idle"
    /\ LET n == newOpenaiApi(parsers)
       IN  /\ parsers' = n.heap
           /\ fed' = [fed EXCEPT ![r].pc = "reading", ![r].ref = n.ref]
    /\ UNCHANGED reasoningCache

\* a line of the response of call r carries a chunk
CallLine(r) ==
    /\ Streaming(r)
    /\ Len(fed[r].inputs) < MaxFed
    /\ \E chunk \in IsolationChunks : Feed(r, Input("chunk", chunk))

\* a line of the response of call r is "data: [DONE]"
CallDone(r) ==
    /\ Streaming(r)
    /\ Len(fed[r].inputs) < MaxFed
    /\ Feed(r, Input("done", NoChoiceChunk))

\* the debounce timer of the parser of call r fires
CallTimer(r) ==
    /\ fed[r].ref # 0
    /\ parsers[fed[r].ref].thinkingFlushTimer
    /\ Feed(r, Input("timer", NoChoiceChunk))

\* the stream of call r ends: the finally block of processStreamingResponse
CallEnds(r) ==
    /\ Streaming(r)
    /\ Feed(r, Input("end", NoChoiceChunk))

nonIsolationVars ==
    <<retryVars, parseVars, splitVars, parser, loopVars, builderVars,
      credVars, pacingVars>>

NextIsolation ==
    \/ \E r \in Calls : StreamOpens(r) /\ UNCHANGED nonIsolationVars
    \/ \E r \in Calls : CallLine(r) /\ UNCHANGED nonIsolationVars
    \/ \E r \in Calls : CallDone(r) /\ UNCHANGED nonIsolationVars
    \/ \E r \in Calls : CallTimer(r) /\ UNCHANGED nonIsolationVars
    \/ \E r \in Calls : CallEnds(r) /\ UNCHANGED nonIsolationVars

InitIsolation ==
    /\ RetryIdle
    /\ StreamIdle
    /\ SplitIdle
    /\ LoopIdle
    /\ BuildersIdle
    /\ CredIdle
    /\ PacingIdle
    /\ parser = "none"
    /\ parsers = <<>>
    /\ fed = [r \in Calls |-> NotStreaming]

SpecIsolation == InitIsolation /\ [][NextIsolation]_vars

(***************************************************************************)
(* Vocabulary of the properties                                            *)
(***************************************************************************)
\* the text is one JSON value and that value is an object
IsJSONObjectText(text) ==
    LET t == SelectSeq(text, NotBlank)
    IN  /\ ~JSONParse(text).threw
        /\ t[1] = "{"

ToolCallsOf(parts) == {i \in 1..Len(parts) : parts[i].type = "ToolCall"}

ToolCallIndexSeq(parts) ==
    LET IsCall(e) == e.type = "ToolCall"
        calls == SelectSeq(parts, IsCall)
    IN  [i \in 1..Len(calls) |-> calls[i].index]

\* the parts a step added to the history
NewParts == SubSeq(api'.reported, Len(api.reported) + 1, Len(api'.reported))

\* the default retryable codes united with the configured ones
ClaimRetryable ==
    {429, 500, 502, 503, 504}
        \cup (IF retryConfig.status_codes = {} THEN {}
              ELSE Range(CHOOSE a \in retryConfig.status_codes : TRUE))

Attempts == {i \in 1..Len(rtrace) : rtrace[i].kind = "attempt"}
Waits == {i \in 1..Len(rtrace) : rtrace[i].kind = "wait"}
Failed(i) == rtrace[i].kind = "attempt" /\ rtrace[i].status # 200
RetryFinished == rpc \in {"returned", "threw"}

(***************************************************************************)
(* Tool-call assembler                                                     *)
(***************************************************************************)
\* C1 (as stated): every reported ToolCall belongs to a buffered call that
\* received a name and whose argument text is a JSON object.
C1_NamedObjectOnly ==
    \A i \in ToolCallsOf(api.reported) :
        /\ api.reported[i].named
        /\ IsJSONObjectText(api.reported[i].src)

\* C1 (amended): every reported ToolCall carries the parse of an argument text
\* that is a JSON object; an incremental emission is of a call that received
\* a name and reports that name; a call that never received a name is only
\* reported by a terminal flush, under the name "unknown_tool".
C1_ObjectOnlyNameOrPlaceholder ==
    \A i \in ToolCallsOf(api.reported) :
        LET e == api.reported[i]
        IN  /\ IsJSONObjectText(e.src)
            /\ e.args = SelectSeq(e.src, NotBlank)
            /\ e.via = "incremental" => e.named
            /\ e.named => e.name \in {"f", "g"}
            /\ ~e.named => e.via = "flush" /\ e.name = "unknown_tool"

\* a terminal flush reported a call that never received a name
C1_Witness ==
    /\ lastLine.kind = "done"
    /\ \E i \in ToolCallsOf(api.reported) :
        /\ ~api.reported[i].named
        /\ api.reported[i].name = "unknown_tool"
        /\ api.reported[i].args = ArgsObject

\* a chunk whose tool_calls are all for indices completed before the chunk
LateFragmentsOnly ==
    /\ lastLine'.kind = "chunk"
    /\ lastLine'.chunk.tool_calls # NoOpt
    /\ LET toolCalls == Nullish(lastLine'.chunk.tool_calls, <<>>)
       IN  /\ Len(toolCalls) > 0
           /\ \A k \in 1..Len(toolCalls) :
                Nullish(toolCalls[k].index, 0) \in api.completedToolCallIndices

C2_Step ==
    /\ \A i, j \in ToolCallsOf(api'.reported) :
          api'.reported[i].index = api'.reported[j].index => i = j
    /\ \A i \in ToolCallsOf(NewParts) : IsJSONObjectText(NewParts[i].src)
    /\ LateFragmentsOnly =>
          /\ ToolCallsOf(NewParts) = {}
          /\ api'.toolCallBuffers = api.toolCallBuffers
          /\ api'.completedToolCallIndices = api.completedToolCallIndices

\* C2: at most one ToolCall is reported per tool-call index, none for an
\* argument text that is not a JSON object, and a chunk that only carries
\* fragments for indices already completed reports no ToolCall and leaves
\* the buffers and the completed indices as they were.
C2_AtMostOncePerIndex == [][C2_Step]_vars

\* '{"a":' then '1}' for index 0 gave one ToolCall {"a":1}, and the last line
\* was a further fragment for index 0
C2_Witness ==
    /\ lastLine.kind = "chunk"
    /\ lastLine.chunk.tool_calls = {<<ToolCallDelta({0}, NoOpt, NoOpt, {ArgsClose})>>}
    /\ linesRead = 3
    /\ 0 \in api.completedToolCallIndices
    /\ api.toolCallBuffers = <<>>
    /\ Cardinality(ToolCallsOf(api.reported)) = 1
    /\ \E i \in ToolCallsOf(api.reported) :
        /\ api.reported[i].index = 0
        /\ api.reported[i].via = "incremental"
        /\ api.reported[i].args = <<"{", KeyTok, "1", "}">>

\* C3: a strict flush that meets argument text that is not a JSON object
\* ends processStreamingResponse with the assembly error.
C3_StrictFlushErrorReachesHost ==
    lastLine.raised = "assembly" => spc = "threw"

C4_Step ==
    (lastLine'.kind = "done" /\ linesRead' = linesRead + 1) =>
        LET Valid(b) == IsJSONObjectText(b.args)
            Invalid(b) == ~Valid(b)
            valid == SelectSeq(api.toolCallBuffers, Valid)
        IN  /\ lastLine'.raised = "none"
            /\ spc' = "reading"
            /\ \A i \in 1..Len(NewParts) : NewParts[i].type = "ToolCall"
            /\ ToolCallIndexSeq(NewParts) = [i \in 1..Len(valid) |-> valid[i].index]
            /\ \A i \in 1..Len(NewParts) :
                  NewParts[i].args = SelectSeq(valid[i].args, NotBlank)
            /\ api'.toolCallBuffers = SelectSeq(api.toolCallBuffers, Invalid)

\* C4: the line [DONE] raises nothing and leaves the parser reading; it
\* reports a ToolCall for exactly the buffered calls whose argument text is a
\* JSON object, in buffer order, and none for the others.
C4_DoneFlushIsLenient == [][C4_Step]_vars

\* [DONE] met a valid and an invalid buffered call
C4_Witness ==
    /\ lastLine.kind = "done"
    /\ spc = "reading"
    /\ Len(api.toolCallBuffers) = 1
    /\ ~IsJSONObjectText(api.toolCallBuffers[1].args)
    /\ Len(api.reported) = 1
    /\ api.reported[1].type = "ToolCall"
    /\ api.reported[1].via = "flush"

(***************************************************************************)
(* Retry executor                                                          *)
(***************************************************************************)
\* C5: with retries enabled fn is invoked at most maxAttempts times; when
\* every attempt failed with a retryable status the call fails with the last
\* error after exactly maxAttempts invocations.
C5_AtMostMaxAttempts ==
    (retryConfig.enabled /\ maxAttempts >= 1) =>
        /\ Cardinality(Attempts) <= maxAttempts
        /\ (rpc = "threw" /\ \A i \in Attempts : rtrace[i].status \in ClaimRetryable)
              => Cardinality(Attempts) = maxAttempts

\* C6: while fn has only failed with retryable statuses, fewer than
\* maxAttempts times, the executor goes on to the next invocation; a success
\* is returned at once, so a success on the k-th invocation (k <= maxAttempts)
\* ends the call as returned after exactly k invocations.
C6_SuccessAfterRetries ==
    retryConfig.enabled =>
        /\ (/\ \A i \in Attempts : rtrace[i].status \in ClaimRetryable
            /\ Cardinality(Attempts) < maxAttempts)
              => rpc \in {"start", "attempt", "wait"}
        /\ \A i \in Attempts :
              rtrace[i].status = 200 =>
                  /\ i = Len(rtrace)
                  /\ rpc = "returned"
                  /\ rtrace[i].n + 1 = Cardinality(Attempts)

\* maxAttempts = 3, statusCodes = [429]: 429, 429, then success
C6_Witness ==
    /\ retryConfig.enabled
    /\ retryConfig.max_attempts = {3}
    /\ retryConfig.status_codes = {<<429>>}
    /\ rpc = "returned"
    /\ Cardinality(Attempts) = 3
    /\ Len(rtrace) = 5
    /\ rtrace[1].status = 429 /\ rtrace[3].status = 429 /\ rtrace[5].status = 200

\* C7: a failure whose status is not retryable is not retried: it is the
\* last thing the executor does.
C7_NonRetryableNotRetried ==
    retryConfig.enabled =>
        \A i \in Attempts :
            (Failed(i) /\ rtrace[i].status \notin ClaimRetryable) =>
                /\ ~rtrace[i].retried
                /\ i = Len(rtrace)
                /\ rpc = "threw"

\* C8: the retryable set is the default set united with the configured
\* codes, and a failure with a status of that set is retried as long as
\* attempts are left.
C8_DefaultsUnionConfigured ==
    retryConfig.enabled =>
        /\ retryableStatusCodes = ClaimRetryable
        /\ \A i \in Attempts :
              (Failed(i) /\ rtrace[i].status \in ClaimRetryable
                         /\ rtrace[i].n < maxAttempts)
                  => /\ rtrace[i].retried
                     /\ IF i = Len(rtrace) THEN rpc = "wait"
                        ELSE rtrace[i + 1].kind = "wait"

\* status_codes = [429]: a 503 failure was retried
C8_Witness ==
    /\ retryConfig.enabled
    /\ retryConfig.status_codes = {<<429>>}
    /\ \E i \in Attempts : rtrace[i].status = 503 /\ rtrace[i].retried
    /\ \E i \in Waits : rtrace[i - 1].status = 503

\* C9: two failures with the same status get the same retry decision,
\* whatever the response bodies say.
C9_DecisionByStatusOnly ==
    retryConfig.enabled =>
        \A i, j \in Attempts :
            (/\ Failed(i) /\ Failed(j)
             /\ rtrace[i].status = rtrace[j].status
             /\ rtrace[i].n < maxAttempts /\ rtrace[j].n < maxAttempts)
                => rtrace[i].retried = rtrace[j].retried

C11_NoAttemptAfterCancelledWait ==
    (cancellation.isCancellationRequested /\ cancellation.during = "wait") =>
        \A i \in 1..Len(rtrace) :
            i > cancellation.at => rtrace[i].kind # "attempt"

RECURSIVE ConcatTexts(_)
\* the concatenation of the texts of a sequence of parts
ConcatTexts(parts) ==
    IF parts = <<>> THEN <<>> ELSE Head(parts).text \o ConcatTexts(Tail(parts))

IsThinkingDelta(p) == p.type = "Thinking" /\ p.text # <<>>
IsThinkingEnd(p) == p.type = "Thinking" /\ p.text = <<>>
IsTextDelta(p) == p.type = "Text"

\* the text of all ThinkingDelta events emitted so far, in order
ThinkingDeltaText(parts) == ConcatTexts(SelectSeq(parts, IsThinkingDelta))

StreamFinished == spc \in {"returned", "threw"}

\* C12: when the stream has ended, the texts of the emitted ThinkingDelta
\* events, concatenated, are the reasoning texts the parser received,
\* concatenated in arrival order (the parser's own capture of them): no
\* buffered thinking text was discarded
C12_NoThinkingTextLost ==
    StreamFinished => ThinkingDeltaText(api.reported) = api.capturedReasoning

\* the positions of the ThinkingEnd / ThinkingDelta events of sequence id
EndsOf(parts, id) ==
    {i \in 1..Len(parts) : IsThinkingEnd(parts[i]) /\ parts[i].tid = id}

DeltasOf(parts, id) ==
    {i \in 1..Len(parts) : IsThinkingDelta(parts[i]) /\ parts[i].tid = id}

\* C13: when the stream has ended, every thinking sequence that was opened
\* has exactly one ThinkingEnd with its id, placed after all ThinkingDelta
\* events of the sequence and before any TextDelta or ToolCall event that
\* follows one of them
C13_EverySequenceEndedOnce ==
    StreamFinished =>
        \A id \in 1..api.thinkingIds :
            LET parts == api.reported
                ends == EndsOf(parts, id)
            IN  /\ Cardinality(ends) = 1
                /\ \A e \in ends : \A i \in DeltasOf(parts, id) :
                      /\ i < e
                      /\ \A j \in (i + 1)..Len(parts) :
                            parts[j].type \in {"Text", "ToolCall"} => e < j

\* a step in which the debounce timer of the thinking buffer fired
TimerStep == linesRead' = linesRead /\ spc' = spc /\ api' # api

\* a step that handled a line carrying one reasoning fragment and nothing else
FragmentStep ==
    /\ linesRead' = linesRead + 1
    /\ lastLine'.kind = "chunk"
    /\ lastLine'.chunk.thinking # NoOpt
    /\ lastLine'.chunk.reasoning_details = <<>>
    /\ lastLine'.chunk.content = NoOpt
    /\ lastLine'.chunk.tool_calls = NoOpt
    /\ lastLine'.chunk.finish_reason = NoOpt

C14_Step ==
    /\ FragmentStep =>
          /\ NewParts = <<>>
          /\ api'.thinkingBuffer =
                api.thinkingBuffer \o Nullish(lastLine'.chunk.thinking, <<>>)
          /\ api'.currentThinkingId =
                IF api.currentThinkingId # 0 THEN api.currentThinkingId
                ELSE api.thinkingIds + 1
    /\ (TimerStep /\ api.currentThinkingId # 0 /\ api.thinkingBuffer # <<>>) =>
          /\ Len(NewParts) = 1
          /\ IsThinkingDelta(NewParts[1])
          /\ NewParts[1].text = api.thinkingBuffer
          /\ NewParts[1].tid = api.currentThinkingId
          /\ api'.thinkingBuffer = <<>>
          /\ api'.currentThinkingId = api.currentThinkingId

\* C14: reasoning fragments that arrive one after the other are appended to
\* the accumulator in arrival order under one sequence id and emit nothing;
\* when the debounce timer then fires, exactly one ThinkingDelta with the
\* accumulated text and that id is emitted, the accumulator is cleared and
\* the sequence stays open (same id, no ThinkingEnd)
C14_FragmentsCoalesce == [][C14_Step]_vars

\* two fragments "r", "r" were coalesced into one ThinkingDelta("rr", 1) by
\* the timer and the sequence is still open
C14_Witness ==
    /\ Len(api.reported) = 1
    /\ IsThinkingDelta(api.reported[1])
    /\ api.reported[1].text = <<"r", "r">>
    /\ api.reported[1].tid = 1
    /\ api.reported[1].via = "timer"
    /\ api.currentThinkingId = 1
    /\ api.thinkingBuffer = <<>>
    /\ linesRead = 2

\* the text of all TextDelta events emitted so far, in order
TextDeltaText(parts) == ConcatTexts(SelectSeq(parts, IsTextDelta))

RECURSIVE MarkerRoute(_, _, _)
\* what the inline markers say about a content text read from position i:
\* the characters between an opening and its closing marker (think), the
\* characters outside (plain); the markers belong to neither
MarkerRoute(text, i, inside) ==
    IF i > Len(text) THEN [think |-> <<>>, plain |-> <<>>]
    ELSE IF ~inside /\ StartsWithAt(text, THINK_START, i)
    THEN MarkerRoute(text, i + Len(THINK_START), TRUE)
    ELSE IF inside /\ StartsWithAt(text, THINK_END, i)
    THEN MarkerRoute(text, i + Len(THINK_END), FALSE)
    ELSE LET rest == MarkerRoute(text, i + 1, inside)
         IN  IF inside
             THEN [rest EXCEPT !.think = <<text[i]>> \o @]
             ELSE [rest EXCEPT !.plain = <<text[i]>> \o @]

\* C17: when the stream has ended, the ThinkingDelta text is exactly the
\* characters of the content between the inline markers and the TextDelta
\* text is exactly the characters outside them, in stream order; no marker
\* character is emitted
C17_InlineThinkingRouted ==
    StreamFinished =>
        /\ ThinkingDeltaText(api.reported) = MarkerRoute(received, 1, FALSE).think
        /\ TextDeltaText(api.reported) = MarkerRoute(received, 1, FALSE).plain

\* the parts the parser reports when the whole content arrives in one delta
OneChunkParts(text) ==
    reportEndThinking(processDelta(ContentChunk(text), NewApi).st).reported

\* C18: when the stream has ended, the concatenated ThinkingDelta text and
\* the concatenated TextDelta text are those the parser emits when the same
\* content arrives in one delta, wherever the content was cut
C18_SplitIndependent ==
    (StreamFinished /\ received # <<>>) =>
        /\ ThinkingDeltaText(api.reported) =
              ThinkingDeltaText(OneChunkParts(received))
        /\ TextDeltaText(api.reported) = TextDeltaText(OneChunkParts(received))

\* the thinking text passed on so far: emitted as ThinkingDelta or waiting in
\* the accumulator of the thinking buffer
PassedOnThinking(st) == ThinkingDeltaText(st.reported) \o st.thinkingBuffer

\* a step that handled a reasoning event carrying one snapshot, in its delta
SnapshotStep ==
    /\ linesRead' = linesRead + 1
    /\ lastLine'.kind = "event"
    /\ lastLine'.chunk.type \in ReasoningEventTypes
    /\ lastLine'.chunk.delta.kind = "string"
    /\ lastLine'.chunk.delta.text \in SnapshotTexts
    /\ lastLine'.chunk.text = Absent
    /\ lastLine'.chunk.summary = Absent

C15_Step ==
    (SnapshotStep /\ api.inlineThinking = <<>>) =>
        LET seen == PassedOnThinking(api)
            snapshot == lastLine'.chunk.delta.text
            now == PassedOnThinking(api')
        IN  /\ StartsWithAt(snapshot, seen, 1) => now = snapshot
            /\ (StartsWithAt(seen, snapshot, 1) /\ seen # snapshot) => now = seen
            /\ (~StartsWithAt(snapshot, seen, 1) /\ ~StartsWithAt(seen, snapshot, 1))
                  => now = seen \o snapshot

\* C15: in the Responses parser a reasoning snapshot that extends the thinking
\* text passed on so far adds only its new suffix, so that the text passed on
\* is the snapshot; a snapshot that is a prefix of the text passed on adds
\* nothing; a snapshot that is neither is added whole
C15_SnapshotsAddOnlyTheSuffix == [][C15_Step]_vars

\* "Hi" then "Hi!" were emitted as ThinkingDelta "Hi" then "!"
C15_Witness ==
    /\ linesRead = 2
    /\ lastLine.kind = "event"
    /\ lastLine.chunk.delta = Str(<<"H", "i", "!">>)
    /\ Len(api.reported) = 2
    /\ IsThinkingDelta(api.reported[1]) /\ api.reported[1].text = <<"H", "i">>
    /\ IsThinkingDelta(api.reported[2]) /\ api.reported[2].text = <<"!">>
    /\ api.reported[1].tid = api.reported[2].tid

\* the value, trimmed and case-folded, is a reasoning-effort word
IsEffortWord(value) == toLowerCase(Trim(value)) \in ConfigValues

NotEffortWord(value) == ~IsEffortWord(value)

\* the non-empty texts in the reasoning-shaped fields of a completed response
ReasoningFieldsOf(response) ==
    LET OfItem(k) ==
            IF response.output[k].type \in {"reasoning", "reasoning_summary"}
            THEN <<coerceText(response.output[k].text),
                   coerceText(response.output[k].content),
                   extractSummaryText(response.output[k].summary)>>
            ELSE <<>>
        items == [k \in 1..Len(response.output) |-> OfItem(k)]
        Flat[k \in 0..Len(items)] == IF k = 0 THEN <<>> ELSE Flat[k - 1] \o items[k]
    IN  SelectSeq(<<coerceText(response.reasoning),
                    coerceText(response.reasoning_summary)>> \o Flat[Len(items)],
                  NonEmpty)

\* a step that handled a reasoning event
ReasoningEventStep ==
    /\ linesRead' = linesRead + 1
    /\ lastLine'.kind = "event"
    /\ lastLine'.chunk.type \in ReasoningEventTypes

\* a step that handled a completed response carrying reasoning fields only
ReasoningResponseStep ==
    /\ linesRead' = linesRead + 1
    /\ lastLine'.kind = "event"
    /\ lastLine'.chunk.type \in {"response.completed", "response.done"}
    /\ lastLine'.chunk.response # NoOpt
    /\ \A r \in lastLine'.chunk.response :
          /\ r.output_text = NoOpt
          /\ \A k \in 1..Len(r.output) : r.output[k].type = "reasoning"

\* nothing was added to the thinking text and no sequence was opened
NoThinkingSurfaced ==
    /\ PassedOnThinking(api') = PassedOnThinking(api)
    /\ api'.thinkingIds = api.thinkingIds
    /\ api'.currentThinkingId = api.currentThinkingId

C16_Step ==
    /\ ReasoningEventStep =>
          LET meant == SelectSeq(Candidates(lastLine'.chunk), NotEffortWord)
          IN  IF meant = <<>> THEN NoThinkingSurfaced
              ELSE api' = bufferReasoningChunk(Head(meant), api)
    /\ ReasoningResponseStep =>
          \A r \in lastLine'.chunk.response :
              (\A k \in 1..Len(ReasoningFieldsOf(r)) :
                  IsEffortWord(ReasoningFieldsOf(r)[k])) => NoThinkingSurfaced

\* C16: a reasoning event whose values are all reasoning-effort words (after
\* trimming and case folding) adds nothing to the thinking text and opens no
\* sequence, and an effort word in front of a real value is skipped as if it
\* were absent; a completed response whose reasoning fields hold only effort
\* words adds nothing and opens no sequence either
C16_EffortWordsNotSurfaced == [][C16_Step]_vars

\* the event carried "High" as delta and "Hi" as text: only "Hi" was taken
C16_Witness ==
    /\ linesRead = 1
    /\ lastLine.kind = "event"
    /\ lastLine.chunk.type \in ReasoningEventTypes
    /\ lastLine.chunk.delta = Str(<<"H", "i", "g", "h">>)
    /\ lastLine.chunk.text = Str(<<"H", "i">>)
    /\ api.thinkingBuffer = <<"H", "i">>
    /\ api.reasoningSoFar = <<"H", "i">>

\* a completed response whose reasoning fields hold " low " and "High" was
\* handled and no thinking sequence exists
C16_WitnessResponse ==
    /\ linesRead = 1
    /\ lastLine.kind = "event"
    /\ lastLine.chunk.type = "response.completed"
    /\ \E r \in lastLine.chunk.response :
          ReasoningFieldsOf(r) = <<<<" ", "l", "o", "w", " ">>, <<"H", "i", "g", "h">>>>
    /\ api.thinkingIds = 0

\* a step that met a line whose payload is no JSON
MalformedStep == linesRead' = linesRead + 1 /\ lastLine'.kind = "malformed"

C19_Step ==
    /\ MalformedStep =>
          /\ api' = api
          /\ spc = "reading" /\ spc' = "reading"
    /\ (lastLine.kind = "malformed" /\ linesRead' = linesRead + 1) =>
          /\ lastLine'.kind = "chunk" => api' = processDelta(lastLine'.chunk, api).st
          /\ lastLine'.kind = "event" => api' = processEvent(lastLine'.chunk, api).st
          /\ lastLine'.kind = "block" =>
                api' = processAnthropicChunk(lastLine'.chunk, api)

\* C19: in each of the three parsers a line whose payload is no JSON reports
\* no part, leaves the whole parser object (tool-call buffers, completed
\* indices, thinking buffer and id, flags) as it was and leaves the stream
\* being read; the line after it is processed as from the state before it
C19_MalformedLineSkipped == [][C19_Step]_vars

\* a malformed line was met while a tool call and thinking text were
\* buffered; the stream is still being read
C19_Witness ==
    /\ lastLine.kind = "malformed"
    /\ spc = "reading"
    /\ api.toolCallBuffers # <<>>
    /\ api.thinkingBuffer # <<>>

\* the positions of the one-space filler TextDelta events
Fillers(parts) ==
    {i \in 1..Len(parts) : IsTextDelta(parts[i]) /\ parts[i].via = "hint"}

\* C20: in every stream of each of the three parsers at most one filler
\* TextDelta was emitted, and a TextDelta that is no filler was emitted
\* before it
C20_FillerOnceAfterText ==
    /\ Cardinality(Fillers(api.reported)) <= 1
    /\ \A i \in Fillers(api.reported) :
          \E j \in 1..(i - 1) :
              IsTextDelta(api.reported[j]) /\ api.reported[j].via # "hint"

\* a filler was emitted after text and before a tool call
C20_Witness ==
    /\ parser = "AnthropicApi"
    /\ Cardinality(Fillers(api.reported)) = 1
    /\ \E i \in Fillers(api.reported) :
          \E j \in (i + 1)..Len(api.reported) : api.reported[j].type = "ToolCall"

\* C21: once a ToolCall event was emitted in a stream, no filler TextDelta
\* is emitted later in that stream
C21_NoFillerAfterToolCall ==
    \A i \in Fillers(api.reported) :
        \A j \in 1..(i - 1) : api.reported[j].type # "ToolCall"

\* C22: after the host requested cancellation the parser emits no further
\* TextDelta or ToolCall event, also not for a chunk whose read was in
\* flight when the cancellation was requested
C22_NoOutputAfterCancellation ==
    cancellation.isCancellationRequested =>
        \A i \in (cancellation.at + 1)..Len(api.reported) :
            api.reported[i].type \notin {"Text", "ToolCall"}

\* processStreamingResponse has returned or thrown
StreamLeft == spc \in {"returned", "threw"}

\* what the finally block reports for the sequence the parser holds open
ClosingParts(st) ==
    IF st.currentThinkingId = 0 THEN <<>>
    ELSE (IF st.thinkingBuffer = <<>> THEN <<>>
          ELSE <<ThinkingPart(st.thinkingBuffer, st.currentThinkingId, "end")>>)
         \o <<ThinkingPart(<<>>, st.currentThinkingId, "end")>>

C23_Step ==
    /\ (~StreamLeft /\ StreamLeft') =>
          api'.reported = api.reported \o ClosingParts(api)
    /\ StreamLeft' =>
          /\ ~api'.thinkingFlushTimer
          /\ api'.thinkingBuffer = <<>>
          /\ api'.currentThinkingId = 0
    /\ StreamLeft => api'.reported = api.reported

C28_RequiredNeedsExactlyOneTool ==
    (built.by = "tools" /\ request.toolMode = "Required") =>
        IF Len(request.tools) = 1
        THEN ~built.threw /\ built.tool_choice = <<request.tools[1]>>
        ELSE built.threw

\* C29: for a conversation whose last turn is a user message the final item
\* of the input array is marked incomplete and no other item is
C29_OnlyFinalItemIncomplete ==
    (/\ built.by = "responses"
     /\ request.messages[Len(request.messages)].role = "user") =>
        /\ built.out # <<>>
        /\ \A i \in 1..Len(built.out) :
              built.out[i].status = "incomplete" <=> i = Len(built.out)

\* the conversation without the tool results of turn k
WithoutToolResults(messages, k) ==
    LET NoResult(part) == part.kind # "toolResult"
    IN  [messages EXCEPT ![k].content = SelectSeq(@, NoResult)]

\* C30: a tool result attached to a system or assistant turn is converted to
\* no block, a diagnostic is recorded for the turn, and the output is that
\* of the conversation without the tool result
C30_MisplacedToolResultDropped ==
    built.by = "anthropic" =>
        \A k \in 1..Len(request.messages) :
            (/\ request.messages[k].role # "user"
             /\ PartsOf(request.messages[k], "toolResult") # <<>>) =>
                /\ k \in Range(built.warnings)
                /\ built.out =
                     convertMessagesAnthropic(
                        WithoutToolResults(request.messages, k), built.include).out

\* the positions of the prompts and of the lookups of a stored key
PromptsOf(trace) == {i \in 1..Len(trace) : trace[i].op = "prompt"}
LookupsOf(trace, key) ==
    {i \in 1..Len(trace) : trace[i].op = "get" /\ trace[i].key = key}

\* C27: the prompt is shown only after both stored credentials were looked
\* up and found absent; a stored generic credential is used without a
\* prompt when the provider-specific one is absent; without a credential
\* the request fails before the fetch
C27_ResolutionOrder ==
    /\ \A i \in PromptsOf(cred.trace) :
          /\ \E j \in 1..(i - 1) :
                /\ cred.trace[j].op = "get"
                /\ cred.trace[j].key = GENERIC_KEY
                /\ ~cred.trace[j].found
          /\ HasProvider(cred.provider) =>
                \E j \in 1..(i - 1) :
                    /\ cred.trace[j].op = "get"
                    /\ cred.trace[j].key # GENERIC_KEY
                    /\ ~cred.trace[j].found
    /\ cred.pc \in {"return", "fetch", "threw"} =>
          \A j \in LookupsOf(cred.trace, GENERIC_KEY) :
              cred.trace[j].found =>
                  /\ PromptsOf(cred.trace) = {}
                  /\ cred.apiKey = {<<"g">>}
    /\ cred.pc = "fetch" => ~NoKey(cred.apiKey)

\* call r is between its fetch and the end of its response
InFlight(r) == chatCalls[r].pc = "fetch"

\* call r was handed to the network and its response has ended
Completed(r) == chatCalls[r].submittedAt # {} /\ chatCalls[r].completedAt # {}

C24_Step ==
    \A r \in Calls :
        (/\ ~InFlight(r)
         /\ InFlight(r)'
         /\ chatCalls[r].delayMs > 0) =>
            \A q \in Calls \ {r} :
                /\ ~(InFlight(q) /\ chatCalls[q].delayMs > 0)
                /\ Completed(q) =>
                      clock >= Nullish(chatCalls[q].completedAt, 0) + chatCalls[r].delayMs

\* C24: with pacing enabled a request is not handed to the network while
\* another one is in flight, and no earlier than its delay after the
\* completion of a request that completed before it
C24_RequestsSerialized == [][C24_Step]_vars

\* no other call is running: the requests are sequential
Sequential(r) ==
    \A q \in Calls \ {r} : chatCalls[q].pc \in {"idle", "returned", "threw"}

\* the time the previous request completed, {} when there is none
PreviousCompletion(r) == UNION {chatCalls[q].completedAt : q \in Calls \ {r}}

\* the pacing delay of the claim: the model's own when defined, even 0
PacingDelay(call) ==
    IF call.modelDelay # {} THEN CHOOSE x \in call.modelDelay : TRUE
    ELSE call.globalDelay

C25_Step ==
    \A r \in Calls :
        /\ (chatCalls[r].pc = "idle" /\ chatCalls'[r].pc # "idle" /\ Sequential(r)) =>
              LET d == PacingDelay(chatCalls'[r])
                  prev == PreviousCompletion(r)
                  elapsed == clock - Nullish(prev, 0)
              IN  IF d > 0 /\ prev # {} /\ elapsed < d
                  THEN /\ chatCalls'[r].pc = "delay"
                       /\ chatCalls'[r].wakeAt = clock + (d - elapsed)
                  ELSE chatCalls'[r].pc = "key"
        /\ (chatCalls[r].pc = "delay" /\ chatCalls'[r].pc # "delay") =>
              /\ chatCalls'[r].pc = "key"
              /\ clock >= chatCalls[r].wakeAt

RECURSIVE Replay(_, _)
\* the parser of a request that runs alone and is given the inputs in order
Replay(inputs, st) ==
    IF inputs = <<>> THEN st
    ELSE Replay(Tail(inputs), Step(Head(inputs), st))

\* the calls that hold a parser
Holding == {r \in Calls : fed[r].ref # 0}

C26_Step ==
    /\ \A r \in Calls :
          fed'[r] # fed[r] =>
              \A q \in Holding \ {r} : parsers'[fed[q].ref] = parsers[fed[q].ref]
    /\ \A r, q \in Holding' : fed'[r].ref = fed'[q].ref => r = q
    /\ \A r \in Holding' :
          parsers'[fed'[r].ref] = Replay(fed'[r].inputs, NewApi)

\* C26: each request creates its own parser; for every interleaving of two
\* concurrent requests a step of one leaves the parse state of the other
\* untouched, no two requests hold the same parser, and the parse state and
\* the events reported for a request are those of the same request run
\* alone on its own inputs
C26_ParseStateNotShared == [][C26_Step]_vars

\* both requests streamed at the same time: the first reported thinking and
\* a tool call, the second reported text, and both streams have ended
C26_Witness ==
    /\ fed[1].pc = "returned"
    /\ fed[2].pc = "returned"
    /\ fed[1].ref # 0
    /\ fed[2].ref # 0
    /\ Len(fed[1].inputs) > MaxFed
    /\ Len(fed[2].inputs) > MaxFed
    /\ \E i \in 1..Len(parsers[fed[1].ref].reported) :
          parsers[fed[1].ref].reported[i].type = "ToolCall"
    /\ \E i \in 1..Len(parsers[fed[2].ref].reported) :
          parsers[fed[2].ref].reported[i].type = "Text"
    /\ parsers[fed[1].ref].reported # parsers[fed[2].ref].reported

\* no thinking sequence is open and yet thinking text or a flush is pending
ThinkingClosed(st) ==
    st.currentThinkingId = 0 =>
        /\ st.thinkingBuffer = <<>>
        /\ ~st.thinkingFlushTimer

\* C39: whenever no thinking sequence is open the thinking accumulator is
\* empty and no debounce flush is pending
C39_NothingBufferedWithoutSequence == ThinkingClosed(api)

\* the indices that have an entry in the buffer map
BufferedIndices(st) ==
    {st.toolCallBuffers[i].index : i \in 1..Len(st.toolCallBuffers)}

C38_Step ==
    /\ BufferedIndices(api') \cap api'.completedToolCallIndices = {}
    /\ api.completedToolCallIndices \subseteq api'.completedToolCallIndices
    /\ \A idx \in api'.completedToolCallIndices \ api.completedToolCallIndices :
          \E i \in ToolCallsOf(NewParts) : NewParts[i].index = idx

\* C38: no tool-call index is both in the buffer map and in the set of
\* completed indices; an index enters the completed set only by the step
\* that emits its ToolCall and removes its buffer, it never leaves the set,
\* and no later event creates a buffer for it
C38_BufferedOrCompleted == [][C38_Step]_vars

FunctionCallDoneTypes ==
    {"response.function_call_arguments.done", "response.function_call.done"}

\* the buffers of calls other than callId whose arguments are still being
\* streamed: what is buffered is not yet a JSON object
Unfinished(st, callId) ==
    {i \in 1..Len(st.toolCallBuffers) :
        /\ st.toolCallBuffers[i].id # {callId}
        /\ ~tryParseJSONObject(st.toolCallBuffers[i].args).ok}

\* the line handled was the done event of the function call callId
DoneEventOf(callId) ==
    /\ linesRead' = linesRead + 1
    /\ lastLine'.kind = "event"
    /\ lastLine'.chunk.type \in FunctionCallDoneTypes
    /\ lastLine'.chunk.call_id = {callId}

C32_Step ==
    \A callId \in {"c1", "c2"} :
        (DoneEventOf(callId) /\ Unfinished(api, callId) # {}) =>
            /\ lastLine'.raised = "none"
            /\ \A i \in Unfinished(api, callId) :
                  \E j \in 1..Len(api'.toolCallBuffers) :
                      api'.toolCallBuffers[j] = api.toolCallBuffers[i]

\* C32: in the Responses parser the done event of one function call that
\* arrives while the arguments of another call are still being streamed
\* raises no error and leaves the buffer of the unfinished call as it was
C32_DoneEventIsNotStrict == [][C32_Step]_vars

\* the parts with text that the output text of the response produced so
\* far: text parts of the content, and thinking parts of inline <think>
\* blocks (no reasoning event was seen, so every thinking part is inline)
ContentTextEmitted(st) ==
    \E i \in 1..Len(st.reported) :
        /\ st.reported[i].text # <<>>
        /\ \/ st.reported[i].type = "Text" /\ st.reported[i].via = "content"
           \/ /\ st.reported[i].type = "Thinking"
              /\ st.inlineThinking # <<>>
              /\ st.reasoningSoFar = <<>>

\* the line handled was a final payload that repeats the response text
FinalTextPayload ==
    /\ linesRead' = linesRead + 1
    /\ lastLine'.kind = "event"
    /\ lastLine'.chunk.type \in {"response.output_text.done", "response.completed"}

C33_Step ==
    (FinalTextPayload /\ ContentTextEmitted(api)) =>
        /\ \A i \in 1..Len(NewParts) :
              ~(NewParts[i].type = "Text" /\ NewParts[i].via = "content")
        /\ api'.inlineThinking = api.inlineThinking
        /\ lastLine'.chunk.type = "response.output_text.done" => api' = api

\* C33: in the Responses parser, once the output text deltas have produced
\* a text part or an inline thinking part, response.output_text.done emits
\* nothing and response.completed emits none of the text of its response
\* object
C33_FinalTextNotRepeated == [][C33_Step]_vars

\* the positions of the ToolCall parts reported for a call id
ToolCallsFor(parts, callId) ==
    {i \in ToolCallsOf(parts) : parts[i].callId = callId}

\* the call ids of the function_call items of a response object that have
\* a call id, a name and a JSON object as arguments
CompleteCallIds(response) ==
    {Nullish(response.output[k].call_id, "") : k \in
        {k \in 1..Len(response.output) :
            /\ response.output[k].type = "function_call"
            /\ Nullish(response.output[k].call_id, "") # ""
            /\ Nullish(response.output[k].name, "") # ""
            /\ IsJSONObjectText(StringOf(response.output[k].arguments))}}

\* the line handled was response.completed with a response object
CompletedStep ==
    /\ linesRead' = linesRead + 1
    /\ lastLine'.kind = "event"
    /\ lastLine'.chunk.type = "response.completed"
    /\ lastLine'.chunk.response # NoOpt

C34_Step ==
    /\ \A callId \in {"c1", "c2"} :
          Cardinality(ToolCallsFor(api'.reported, callId)) <= 1
    /\ CompletedStep =>
          \A callId \in CompleteCallIds(CHOOSE x \in lastLine'.chunk.response : TRUE) :
              /\ Cardinality(ToolCallsFor(api'.reported, callId)) = 1
              /\ Cardinality(ToolCallsFor(NewParts, callId)) =
                    IF ToolCallsFor(api.reported, callId) = {} THEN 1 ELSE 0

\* C34: on response.completed every function_call item of the response
\* object with a call id, a name and JSON-object arguments yields one
\* ToolCall if none was reported for that call id before and none if one
\* was; over the whole stream a call id has at most one ToolCall
C34_CompletedCallsOnce == [][C34_Step]_vars

\* response.completed carried the call c1 that the stream had not
\* delivered: its one ToolCall comes from the response object
C34_Witness ==
    /\ lastLine.kind = "event"
    /\ lastLine.chunk.type = "response.completed"
    /\ lastLine.chunk.response # NoOpt
    /\ "c1" \in CompleteCallIds(CHOOSE x \in lastLine.chunk.response : TRUE)
    /\ Len(api.reported) > 0
    /\ api.reported[Len(api.reported)].type = "ToolCall"
    /\ api.reported[Len(api.reported)].callId = "c1"
    /\ api.reported[Len(api.reported)].name = "f"
    /\ Cardinality(ToolCallsFor(api.reported, "c1")) = 1

\* response.completed repeated the call c1 that the deltas had already
\* delivered: nothing was added for it
C34_WitnessRepeated ==
    /\ lastLine.kind = "event"
    /\ lastLine.chunk.type = "response.completed"
    /\ lastLine.chunk.response # NoOpt
    /\ "c1" \in CompleteCallIds(CHOOSE x \in lastLine.chunk.response : TRUE)
    /\ Cardinality(ToolCallsFor(api.reported, "c1")) = 1
    /\ api.reported[Len(api.reported)].type # "ToolCall"

\* the reasoning delta of the step is taken for a cumulative snapshot: it
\* starts with the reasoning text accumulated so far or is a prefix of it
TakenForSnapshot(st, delta) ==
    /\ st.reasoningSoFar # <<>>
    /\ \/ StartsWithAt(delta, st.reasoningSoFar, 1)
       \/ StartsWithAt(st.reasoningSoFar, delta, 1)

C35_OriginalStep ==
    SnapshotStep =>
        PassedOnThinking(api') = PassedOnThinking(api) \o lastLine'.chunk.delta.text

C35_Step ==
    SnapshotStep =>
        LET delta == lastLine'.chunk.delta.text
            soFar == api.reasoningSoFar
            added == IF ~TakenForSnapshot(api, delta) THEN delta
                     ELSE IF StartsWithAt(delta, soFar, 1)
                     THEN SliceFrom(delta, Len(soFar))
                     ELSE <<>>
        IN  PassedOnThinking(api') = PassedOnThinking(api) \o added

Undefined == [kind |-> "undefined", text |-> <<>>]
Null == [kind |-> "null", text |-> <<>>]
Text(t) == [kind |-> "string", text |-> t]

\* a message of the chat-completions request; from is history: the position
\* of the host message it was converted from
ChatMessage(role, from, content, reasoning, toolCalls, toolCallId) ==
    [role |-> role, from |-> from, content |-> content,
     reasoning_content |-> reasoning, tool_calls |-> toolCalls,
     tool_call_id |-> toolCallId]

\* `part.callId || `${Date.now()}-${Math.random()...}``
ToolCallId(part) == IF part.callId # "" THEN part.callId ELSE "generated"

RECURSIVE CachedThinking(_, _)
\* `for (const tc of toolCalls) { cachedThinking = cache.get(tc.id);
\*  if (cachedThinking) break; }`: undefined is {}
CachedThinking(toolCalls, cache) ==
    IF toolCalls = <<>> THEN {}
    ELSE LET cachedThinking == CacheGet(cache, ToolCallId(Head(toolCalls)))
         IN  IF cachedThinking # {} /\ cachedThinking # {<<>>}
             THEN cachedThinking
             ELSE CachedThinking(Tail(toolCalls), cache)

\* OpenaiApi.convertMessages: the messages one host message adds to out
ChatMessages(m, from, includeReasoningInRequest, cache) ==
    LET joinedText == Trim(JoinedValues(PartsOf(m, "text")))
        joinedThinking == Trim(JoinedValues(PartsOf(m, "thinking")))
        toolCalls == PartsOf(m, "toolCall")
        toolResults == PartsOf(m, "toolResult")
        imageParts == PartsOf(m, "image")
        cachedThinking == CachedThinking(toolCalls, cache)
        reasoning ==
            IF ~includeReasoningInRequest THEN Undefined
            ELSE IF joinedThinking # <<>> THEN Text(joinedThinking)
            ELSE IF Len(toolCalls) = 0 THEN Undefined
            ELSE IF cachedThinking # {} THEN Text(Nullish(cachedThinking, <<>>))
            ELSE Null
        contentArray ==
            (IF joinedText # <<>>
             THEN <<ContentPart("text", joinedText)>> ELSE <<>>)
            \o [i \in 1..Len(imageParts) |->
                   ContentPart("image_url", imageParts[i].value)]
    IN  (IF m.role = "assistant"
            /\ (joinedText # <<>> \/ reasoning # Undefined \/ Len(toolCalls) > 0)
         THEN <<ChatMessage("assistant", from, joinedText, reasoning,
                            [i \in 1..Len(toolCalls) |->
                                [id |-> ToolCallId(toolCalls[i]),
                                 name |-> toolCalls[i].name]], "")>>
         ELSE <<>>)
        \o [i \in 1..Len(toolResults) |->
               ChatMessage("tool", from, toolResults[i].value, Undefined, <<>>,
                           toolResults[i].callId)]
        \o (IF m.role = "user" /\ Len(imageParts) > 0
            THEN <<ChatMessage("user", from, contentArray, Undefined, <<>>, "")>>
            ELSE IF m.role \in {"user", "system"} /\ joinedText # <<>>
            THEN <<ChatMessage(m.role, from, joinedText, Undefined, <<>>, "")>>
            ELSE <<>>)

RECURSIVE ChatLoop(_, _, _, _)
\* `for (const m of messages)` of OpenaiApi.convertMessages, from message k on
ChatLoop(messages, k, includeReasoningInRequest, cache) ==
    IF k > Len(messages) THEN <<>>
    ELSE ChatMessages(messages[k], k, includeReasoningInRequest, cache)
         \o ChatLoop(messages, k + 1, includeReasoningInRequest, cache)

\* OpenaiApi.convertMessages
convertMessagesOpenai(messages, includeReasoningInRequest, cache) ==
    ChatLoop(messages, 1, includeReasoningInRequest, cache)

\* the chunks of the response: reasoning text, content, a tool call that
\* carries its id, and a tool call without an id
ReasoningChunks ==
    {Chunk({<<"r">>}, <<>>, NoOpt, NoOpt, NoOpt),
     ContentChunk(<<"x">>),
     Chunk(NoOpt, <<>>, NoOpt, {<<ToolCallDelta({0}, {"call_1"}, {"f"}, {ArgsObject})>>}, NoOpt),
     Chunk(NoOpt, <<>>, NoOpt, {<<ToolCallDelta({1}, NoOpt, {"g"}, {ArgsObject})>>}, NoOpt)}

\* the assistant turns the next request may carry
AssistantContents ==
    {<<MsgPart("toolCall", <<>>, "call_1", "f")>>,
     <<MsgPart("text", <<"a">>, "", ""), MsgPart("toolCall", <<>>, "call_1", "f")>>,
     <<MsgPart("thinking", <<"t">>, "", ""), MsgPart("toolCall", <<>>, "call_1", "f")>>,
     <<MsgPart("thinking", <<"t", " ">>, "", ""), MsgPart("toolCall", <<>>, "call_1", "f")>>,
     <<MsgPart("thinking", <<" ">>, "", ""), MsgPart("toolCall", <<>>, "call_1", "f")>>,
     <<MsgPart("toolCall", <<>>, "call_9", "g")>>,
     <<MsgPart("toolCall", <<>>, "call_9", "g"), MsgPart("toolCall", <<>>, "call_1", "f")>>,
     <<MsgPart("toolCall", <<>>, GeneratedCallId, "g")>>,
     <<MsgPart("thinking", <<"t">>, "", "")>>,
     <<MsgPart("text", <<"a">>, "", "")>>}

\* the conversations of the next request: the user's turn, the assistant's
\* turn and the result of its tool
LaterConversations ==
    {<<Message("user", <<MsgPart("text", <<"h", "i">>, "", "")>>),
       Message("assistant", c),
       Message("user", <<MsgPart("toolResult", <<"o">>, "call_1", "")>>)>> :
         c \in AssistantContents}

\* the host's next request is converted after the response has ended
BuildChatMessages ==
    /\ spc \in {"returned", "threw"}
    /\ built = NotBuilt
    /\ \E messages \in LaterConversations, include \in BOOLEAN :
        /\ request' = [NoRequest EXCEPT !.messages = messages]
        /\ built' = [by |-> "openai", include |-> include,
                     out |-> convertMessagesOpenai(messages, include,
                                                   reasoningCache)]

nonReasoningVars == <<retryVars, splitVars, parser, loopVars, providerVars>>

NextReasoning ==
    \/ LineChunkFrom(ReasoningChunks) /\ UNCHANGED nonStreamVars
    \/ LineDone /\ UNCHANGED nonStreamVars
    \/ ThinkingTimerFires /\ UNCHANGED nonStreamVars
    \/ StreamEnds /\ UNCHANGED nonStreamVars
    \/ ReadFails /\ UNCHANGED nonStreamVars
    \/ BuildChatMessages /\ UNCHANGED <<nonReasoningVars, streamVars>>

InitReasoning ==
    /\ RetryIdle
    /\ InitStream
    /\ OthersIdle
    /\ parser = "OpenaiApi"

SpecReasoning == InitReasoning /\ [][NextReasoning]_vars

\* the reasoning text the response streamed: what reached the host as
\* thinking deltas
StreamedReasoning == ThinkingDeltaText(api.reported)

\* the ids the response streamed for the tool calls it delivered
StreamedCallIds ==
    {api.reported[i].callId :
        i \in {j \in 1..Len(api.reported) : api.reported[j].type = "ToolCall"}}
    \ {GeneratedCallId}

\* the assistant messages converted from message k of the request
AssistantOut(k) ==
    {built.out[i] :
        i \in {j \in 1..Len(built.out) :
                  built.out[j].from = k /\ built.out[j].role = "assistant"}}

CallIdsOf(m) ==
    LET toolCalls == PartsOf(m, "toolCall")
    IN  {toolCalls[i].callId : i \in 1..Len(toolCalls)}

IncludingReasoning == built.by = "openai" /\ built.include

\* the assistant message k of the request is converted as the rule says;
\* NoThinking(m) tells when a message counts as without thinking, and
\* ThinkingText(m) is the text its thinking segments stand for
ReasoningRule(k, NoThinking(_), ThinkingText(_)) ==
    LET m == request.messages[k]
    IN  m.role = "assistant" =>
          /\ \A e \in AssistantOut(k) :
                /\ ~NoThinking(m) =>
                      e.reasoning_content = Text(ThinkingText(m))
                /\ (/\ NoThinking(m)
                    /\ StreamedReasoning # <<>>
                    /\ CallIdsOf(m) \cap StreamedCallIds # {}) =>
                      e.reasoning_content = Text(StreamedReasoning)
                /\ (/\ NoThinking(m)
                    /\ CallIdsOf(m) # {}
                    /\ CallIdsOf(m) \cap DOMAIN reasoningCache = {}) =>
                      e.reasoning_content = Null
                /\ CallIdsOf(m) # {} => e.reasoning_content # Undefined
          /\ CallIdsOf(m) # {} => AssistantOut(k) # {}

NoThinkingSegment(m) == PartsOf(m, "thinking") = <<>>
SegmentsText(m) == JoinedValues(PartsOf(m, "thinking"))

\* C36 as stated: a message with thinking segments carries their text, and
\* only a message without a thinking segment is served from the cache
C36_ReasoningFromSegmentsOrCache ==
    IncludingReasoning =>
        \A k \in 1..Len(request.messages) :
            ReasoningRule(k, NoThinkingSegment, SegmentsText)

BlankThinking(m) == Trim(SegmentsText(m)) = <<>>
TrimmedText(m) == Trim(SegmentsText(m))

\* C36: with includeReasoningInRequest set, after a chat-completions
\* response that streamed reasoning text R and delivered tool calls under
\* streamed ids I has ended, an assistant message of a later request whose
\* thinking is blank and that has a tool call with an id in I is built with
\* reasoning_content = R; a message whose thinking is not blank is built
\* with the trimmed text of its thinking segments; a message with tool
\* calls, blank thinking and no cache entry is built with an explicit null;
\* an assistant message with a tool call is never built without the field
C36_ReasoningFromThinkingOrCache ==
    IncludingReasoning =>
        \A k \in 1..Len(request.messages) :
            ReasoningRule(k, BlankThinking, TrimmedText)

\* the response streamed reasoning and the call call_1, and the later
\* request's assistant message with that call and no thinking is built with
\* the streamed reasoning
C36_Witness ==
    /\ IncludingReasoning
    /\ StreamedReasoning # <<>>
    /\ "call_1" \in StreamedCallIds
    /\ NoThinkingSegment(request.messages[2])
    /\ \E e \in AssistantOut(2) : e.reasoning_content = Text(StreamedReasoning)

(***************************************************************************)
(* SpecAnthropic: one stream handled by the message-block parser.          *)
(***************************************************************************)
NextAnthropic ==
    \/ LineNotData /\ UNCHANGED nonStreamVars
    \/ LineDone /\ UNCHANGED nonStreamVars
    \/ LineMalformed /\ UNCHANGED nonStreamVars
    \/ LineAnthropic /\ UNCHANGED nonStreamVars
    \/ ThinkingTimerFires /\ UNCHANGED nonStreamVars
    \/ StreamEnds /\ UNCHANGED nonStreamVars
    \/ ReadFails /\ UNCHANGED nonStreamVars

InitAnthropic == RetryIdle /\ InitStream /\ OthersIdle /\ parser = "AnthropicApi"

SpecAnthropic == InitAnthropic /\ [][NextAnthropic]_vars

\* the buffered tool-use blocks whose argument text is not a JSON object
UnparsableBlocks(st) ==
    {st.toolCallBuffers[i].index :
        i \in {j \in 1..Len(st.toolCallBuffers) :
                  ~tryParseJSONObject(st.toolCallBuffers[j].args).ok}}

\* a step of the message-block parser that handled content_block_stop or
\* message_stop
BlockStopStep ==
    /\ parser = "AnthropicApi"
    /\ linesRead' = linesRead + 1
    /\ lastLine'.kind = "block"
    /\ lastLine'.chunk.type \in {"content_block_stop", "message_stop"}

C40_Step ==
    BlockStopStep =>
        /\ \A i \in 1..Len(NewParts) :
              NewParts[i].type = "ToolCall" =>
                  NewParts[i].index \notin UnparsableBlocks(api)
        /\ UnparsableBlocks(api) \cap api'.completedToolCallIndices
              = UnparsableBlocks(api) \cap api.completedToolCallIndices
        /\ lastLine'.raised = "none"
        /\ spc' = "reading"
        /\ api'.currentThinkingId = 0

\* C40: in the message-block parser, content_block_stop and message_stop
\* report no ToolCall for a buffered tool-use block whose argument text is
\* not a JSON object (a block without any argument fragment included) and
\* raise no error: the handler completes, the stream goes on, and the call
\* is not delivered
C40_StopSkipsUnparsableBlocks == [][C40_Step]_vars

\* a tool-use block that received no argument fragment is still buffered
\* after a stop that reported nothing for it
C40_Witness ==
    /\ parser = "AnthropicApi"
    /\ lastLine.kind = "block"
    /\ lastLine.chunk.type \in {"content_block_stop", "message_stop"}
    /\ \E i \in 1..Len(api.toolCallBuffers) : api.toolCallBuffers[i].args = <<>>
    /\ \A i \in 1..Len(api.reported) : api.reported[i].type # "ToolCall"

(***************************************************************************)
(* Line framing of processStreamingResponse.  The response is the UTF-8    *)
(* encoding of a text; the network cuts its bytes into chunks at any       *)
(* positions.  Characters are "d", the newline and the two-byte character  *)
(* U+00E9; bytes are written in hexadecimal.                               *)
(***************************************************************************)
MaxText == 4

FramingChars == {"d", "\n", "U+00E9"}

FramingTexts == UNION {[1..n -> FramingChars] : n \in 0..MaxText}

\* the UTF-8 encoding of a character
EncodeChar(c) ==
    CASE c = "d" -> <<"64">>
      [] c = "\n" -> <<"0A">>
      [] OTHER -> <<"C3", "A9">>

RECURSIVE Encode(_)
Encode(text) ==
    IF text = <<>> THEN <<>> ELSE EncodeChar(Head(text)) \o Encode(Tail(text))

RECURSIVE DecodeBytes(_, _)
\* the UTF-8 decoder over bytes: an incomplete character at the end is held
\* back when streaming and replaced otherwise; a byte that cannot start or
\* continue a character is replaced by U+FFFD
DecodeBytes(bytes, stream) ==
    IF bytes = <<>> THEN [text |-> <<>>, pending |-> <<>>]
    ELSE LET b == Head(bytes)
             Then(c, rest) ==
                 LET r == DecodeBytes(rest, stream)
                 IN  [text |-> <<c>> \o r.text, pending |-> r.pending]
         IN  CASE b = "64" -> Then("d", Tail(bytes))
               [] b = "0A" -> Then("\n", Tail(bytes))
               [] b = "C3" /\ Len(bytes) = 1 ->
                    IF stream THEN [text |-> <<>>, pending |-> bytes]
                    ELSE [text |-> <<"U+FFFD">>, pending |-> <<>>]
               [] b = "C3" /\ Len(bytes) > 1 /\ bytes[2] = "A9" ->
                    Then("U+00E9", Tail(Tail(bytes)))
               [] OTHER -> Then("U+FFFD", Tail(bytes))

decodeEachChunkAlone(pending, value) == DecodeBytes(value, FALSE)

\* `decoder.decode(value, { stream: true })`: the bytes held back by the
\* previous call come first
decode(pending, value) == DecodeBytes(pending \o value, TRUE)

RECURSIVE split(_)
\* buffer.split("\n")
split(buffer) ==
    IF "\n" \notin Range(buffer) THEN <<buffer>>
    ELSE LET i == CHOOSE k \in 1..Len(buffer) :
                    buffer[k] = "\n" /\ \A j \in 1..(k - 1) : buffer[j] # "\n"
         IN  <<SubSeq(buffer, 1, i - 1)>>
             \o split(SubSeq(buffer, i + 1, Len(buffer)))

\* processStreamingResponse is called with the body of a response
InitFraming ==
    \E text \in FramingTexts :
        framing = [NotFraming EXCEPT !.pc = "reading", !.text = text,
                                     !.wire = Encode(text)]

\* reader.read() resolves with the next chunk: `buffer += decoder.decode(
\* value, { stream: true }); const lines = buffer.split("\n");
\* buffer = lines.pop() || ""; for (const line of lines) ...`
ChunkRead ==
    /\ framing.pc = "reading"
    /\ \E n \in 0..(Len(framing.wire) - framing.sent) :
        LET value == SubSeq(framing.wire, framing.sent + 1, framing.sent + n)
            decoded == decode(framing.pending, value)
            lines == split(framing.buffer \o decoded.text)
        IN  framing' = [framing EXCEPT
                           !.sent = @ + n,
                           !.cuts = @ \cup {framing.sent + n},
                           !.pending = decoded.pending,
                           !.buffer = lines[Len(lines)],
                           !.handed = @ \o SubSeq(lines, 1, Len(lines) - 1)]

\* reader.read() resolves with done: the loop breaks, buffer is dropped
ReadDone ==
    /\ framing.pc = "reading"
    /\ framing.sent = Len(framing.wire)
    /\ framing' = [framing EXCEPT !.pc = "ended"]

nonFramingVars ==
    <<retryVars, streamVars, splitVars, parser, reader, builderVars, providerVars>>

NextFraming ==
    \/ ChunkRead /\ UNCHANGED nonFramingVars
    \/ ReadDone /\ UNCHANGED nonFramingVars

InitFramingOnly ==
    /\ RetryIdle
    /\ StreamIdle
    /\ SplitIdle
    /\ BuildersIdle
    /\ ProviderIdle
    /\ parser = "none"
    /\ reader = [at |-> "read", left |-> 0]
    /\ InitFraming

SpecFraming == InitFramingOnly /\ [][NextFraming]_vars

RECURSIVE TerminatedLines(_, _)
\* the newline-terminated lines of a text, in order; line is the line being
\* read
TerminatedLines(text, line) ==
    IF text = <<>> THEN <<>>
    ELSE IF Head(text) = "\n"
         THEN <<line>> \o TerminatedLines(Tail(text), <<>>)
         ELSE TerminatedLines(Tail(text), Append(line, Head(text)))

\* the longest prefix of the text whose bytes were all read
TextRead ==
    LET k == CHOOSE n \in 0..Len(framing.text) :
                /\ Len(Encode(SubSeq(framing.text, 1, n))) <= framing.sent
                /\ \A j \in (n + 1)..Len(framing.text) :
                      Len(Encode(SubSeq(framing.text, 1, j))) > framing.sent
    IN  SubSeq(framing.text, 1, k)

\* C37: however the bytes of the response are cut into chunks, the lines
\* handed to the for loop are the newline-terminated lines of the text read
\* so far, in order and each once; when the stream has ended they are the
\* newline-terminated lines of the whole text, and the text after the last
\* newline was not handed over
C37_FramingIndependentOfChunks ==
    framing.pc # "off" =>
        /\ framing.handed = TerminatedLines(TextRead, <<>>)
        /\ framing.pc = "ended" =>
              framing.handed = TerminatedLines(framing.text, <<>>)

\* the stream has ended; a chunk boundary fell inside the two-byte character
\* and inside a line, a line was handed over, and text after the last
\* newline was left in the buffer
C37_Witness ==
    /\ framing.pc = "ended"
    /\ framing.handed # <<>>
    /\ framing.buffer # <<>>
    /\ \E c \in framing.cuts :
          /\ c > 0
          /\ c < Len(framing.wire)
          /\ framing.wire[c] = "C3"
          /\ "0A" \in Range(SubSeq(framing.wire, c + 1, Len(framing.wire)))

(***************************************************************************)
(* Sampling parameters of the request body: prepareRequestBody of the      *)
(* chat-completions and of the Responses builder, the temperature and      *)
(* top_p parts.  um is the model's entry of the user's settings (it may be *)
(* missing), modelOptions are the host's options of the request.           *)
(***************************************************************************)
\* a value of a numeric setting: undefined, null or a number
NumUnset == [kind |-> "undefined", n |-> 0]
NumNull == [kind |-> "null", n |-> 0]
Num(n) == [kind |-> "number", n |-> n]

\* `a ?? b`
Coalesce(a, b) == IF a.kind = "number" THEN a ELSE b

\* the entry of the user's settings; `um?.x` of a missing entry is undefined
UserModel(temperature, top_p) ==
    [defined |-> TRUE, temperature |-> temperature, top_p |-> top_p]
NoUserModel == [defined |-> FALSE, temperature |-> NumUnset, top_p |-> NumUnset]

\* the fields of the request body; NumUnset is a field the body does not have
Body(temperature, top_p) == [temperature |-> temperature, top_p |-> top_p]

\* OpenaiApi.prepareRequestBody: temperature and top_p
prepareRequestBodyOpenai(um, modelOptions) ==
    LET oTemperature == Coalesce(modelOptions.temperature, Num(0))
        temperature == Coalesce(um.temperature, oTemperature)
    IN  Body(IF um.defined /\ um.temperature = NumNull THEN NumUnset
             ELSE temperature,
             IF um.top_p # NumUnset /\ um.top_p # NumNull THEN um.top_p
             ELSE NumUnset)

\* OpenaiResponsesApi.prepareRequestBody: temperature and top_p
prepareRequestBodyResponses(um, modelOptions) ==
    Body(IF um.temperature # NumUnset /\ um.temperature # NumNull
         THEN um.temperature ELSE NumUnset,
         IF um.top_p # NumUnset /\ um.top_p # NumNull THEN um.top_p
         ELSE NumUnset)

Settings == {NumUnset, NumNull, Num(0), Num(1)}

UserModels ==
    {NoUserModel} \cup {UserModel(t, p) : t \in Settings, p \in Settings}

HostOptions == {[temperature |-> t] : t \in {NumUnset, Num(0), Num(2)}}

\* a request whose model has one of the entries
InitBody ==
    /\ request \in {NoRequest @@ [um |-> um, modelOptions |-> mo] :
                       um \in UserModels, mo \in HostOptions}
    /\ built = NotBuilt

\* requestBody = openaiApi.prepareRequestBody(requestBody, um, options)
PrepareChatBody ==
    /\ built = NotBuilt
    /\ built' = [by |-> "body", api |-> "OpenaiApi",
                 rb |-> prepareRequestBodyOpenai(request.um, request.modelOptions)]
    /\ UNCHANGED request

\* requestBody = openaiResponsesApi.prepareRequestBody(requestBody, um, options)
PrepareResponsesBody ==
    /\ built = NotBuilt
    /\ built' = [by |-> "body", api |-> "OpenaiResponsesApi",
                 rb |-> prepareRequestBodyResponses(request.um,
                                                    request.modelOptions)]
    /\ UNCHANGED request

NextBody ==
    \/ PrepareChatBody /\ UNCHANGED nonBuilderVars
    \/ PrepareResponsesBody /\ UNCHANGED nonBuilderVars

InitBodyOnly ==
    /\ RetryIdle
    /\ StreamIdle
    /\ SplitIdle
    /\ LoopIdle
    /\ ProviderIdle
    /\ parser = "none"
    /\ InitBody

SpecBody == InitBodyOnly /\ [][NextBody]_vars

\* the field of the body is as the three states of its setting ask: absent
\* for null, the default for unset, the number for a number
ThreeStates(setting, field, default) ==
    CASE setting = NumNull -> field = NumUnset
      [] setting = NumUnset -> field = default
      [] OTHER -> field = setting

\* C31: for temperature and for top_p the built body keeps the three states
\* of the setting apart: null leaves the field out, unset puts the default
\* (temperature: the host's value or 0, top_p: 1), a number puts that number
C31_ThreeStatesKeptApart ==
    built.by = "body" =>
        /\ ThreeStates(request.um.temperature, built.rb.temperature,
                       Coalesce(request.modelOptions.temperature, Num(0)))
        /\ ThreeStates(request.um.top_p, built.rb.top_p, Num(1))

\* the temperature of the chat-completions body alone
C31_ChatTemperature ==
    (built.by = "body" /\ built.api = "OpenaiApi") =>
        ThreeStates(request.um.temperature, built.rb.temperature,
                    Coalesce(request.modelOptions.temperature, Num(0)))

====
